---- MODULE Spec2Model ----
(***************************************************************************)
(* Nabnation Top 100: the as-of-week statistics, movement classification   *)
(* and weekly awards of the chart page scripts.                            *)
(*                                                                         *)
(*   src/chart.js (lines 1-721)     week-scan script: main, buildDerived,  *)
(*                                  deriveEntryForWeek, computeAwardsForWeek*)
(*   src/chart.js (lines 723-1116)  catalog script: statsAsOf,             *)
(*                                  lastWeekRankAsOf, main                 *)
(*   src/unnamed/part_001           catalog script, later revision:        *)
(*                                  dedupHistory, statsAsOf, getPrevWeek,  *)
(*                                  lastWeekRankImmediate, computeAwardsMap*)
(*                                                                         *)
(* Weeks are ISO date strings compared lexically by the code; here they    *)
(* are the integers 1..MaxWeeks, whose order is that lexical order.        *)
(* Strings the code cleans are sequences of tokens (a letter, a space, an  *)
(* asterisk, a whole parenthetical).  JavaScript values that may be null   *)
(* or NaN are records [t, n] with t in {"num", "null", "nan"}.             *)
(***************************************************************************)
EXTENDS Integers, Sequences, FiniteSets, TLC

VARIABLES
  script,        \* which part this behaviour runs: "catalog", "scan", "awards", "clean", "lookup"
  pc,            \* position of the page: "loading" (inputs still arriving), "rendered", "failed"
  catalogSong,   \* catalog script: the catalog's song object (its history), or NoSong
  weeks,         \* catalog script: manifest.weeks, as listed
  entry,         \* catalog script: the raw entry of the chart file being rendered
  row,           \* catalog script: what main displays for the entry
  weekFiles,     \* scan script: the published week files, oldest first
  targetWeek,    \* scan script: the week main renders
  derivedEntries, \* scan script: the entries main derives for targetWeek
  classified,    \* awards: the classified entries of one week, as listed
  awards,        \* awards: the map the awards function returned, and which function
  rawTitle,      \* cleaning: the title string given to songKey
  rawArtist,     \* cleaning: the artist string given to cleanArtistName and songKey
  otherArtist,   \* cleaning: a second spelling of the same artist
  cleaned,       \* cleaning: what each function applied so far returned, by function name
  catalog,       \* lookup: the catalog's songs as Object.entries lists them, [skey, song]
  lookupEntry,   \* lookup: the chart entry findCatalogSong was called with
  lookupHit,     \* lookup: what findCatalogSong returned
  failedLoads,   \* the files loadJSON could not load when main ran
  fetches,       \* scan script, step by step: where the fetch of each needed week is
  weekCache,     \* scan script, step by step: weekDataByWeek as the fetches fill it
  artistSongs,   \* artist search: the histories of the songs the catalog lists for an artist
  shown,         \* artist search: the item the search box shows for the artist, and by which script
  weekRows,      \* part_001: the Weeks value shown in the row of each listed entry
  dom,           \* the expandable rows of a rendered page and the last event handled
  img            \* chart.js: a cover image whose loads fail, and its error handler's marks

cleanVars == <<rawTitle, rawArtist, otherArtist, cleaned>>
lookupVars == <<catalog, lookupEntry, lookupHit>>
loadVars == <<failedLoads>>
fetchVars == <<fetches, weekCache>>
searchVars == <<artistSongs, shown>>
rowVars == <<weekRows, dom, img>>
laterVars == <<fetchVars, searchVars, rowVars>>

vars == <<script, pc, catalogSong, weeks, entry, row, weekFiles, targetWeek,
          derivedEntries, classified, awards, cleanVars, lookupVars, loadVars, laterVars>>

(***************************************************************************)
(* Bounds of the model                                                     *)
(***************************************************************************)
MaxWeeks == 3
MaxRank == 2
MaxHist == 3
MaxAppearances == 3
MaxAwardEntries == 3
MaxDelta == 2
MaxDecor == 4
MaxOtherDecor == 1
MaxCatalogKeys == 3
MaxSongs == 2

WeekIds == 1..MaxWeeks
Ranks == 1..MaxRank

(***************************************************************************)
(* JavaScript values                                                       *)
(***************************************************************************)
Num(n) == [t |-> "num", n |-> n]
JsNull == [t |-> "null", n |-> 0]
JsNaN == [t |-> "nan", n |-> 0]

IsNum(v) == v.t = "num"

\* Number(x) for x a number, null or a non-numeric string
ToNumber(v) == IF v.t = "null" THEN Num(0) ELSE v

\* a - b on JavaScript numbers: null converts to 0, NaN is contagious
JsSub(a, b) ==
  LET x == ToNumber(a)
      y == ToNumber(b)
  IN IF x.t = "nan" \/ y.t = "nan" THEN JsNaN ELSE Num(x.n - y.n)

\* a < b: false whenever one side is NaN
JsLt(a, b) ==
  LET x == ToNumber(a)
      y == ToNumber(b)
  IN x.t = "num" /\ y.t = "num" /\ x.n < y.n

\* a > b
JsGt(a, b) == JsLt(b, a)

\* Math.abs(v)
JsAbs(v) ==
  LET x == ToNumber(v)
  IN IF x.t = "nan" THEN JsNaN ELSE Num(IF x.n < 0 THEN 0 - x.n ELSE x.n)

\* v ?? d
Coalesce(v, d) == IF v.t = "null" THEN d ELSE v

\* fmtRankOrDash(v) shows the dash exactly for null
fmtRankOrDash(v) == IF v.t = "null" THEN "dash" ELSE v

SetMin(S) == CHOOSE x \in S : \A y \in S : x <= y
SetMax(S) == CHOOSE x \in S : \A y \in S : x >= y

Reverse(s) == [i \in 1..Len(s) |-> s[Len(s) + 1 - i]]

(***************************************************************************)
(* Strings as token sequences, and the cleaning functions of chart.js      *)
(***************************************************************************)
MetaParens == {"(pts)", "(listeners)", "(new release)"}
OtherParens == {"(live)"}

IsParen(c) == c \in MetaParens \cup OtherParens

RECURSIVE TrimLeft(_)
TrimLeft(s) == IF s # <<>> /\ Head(s) = " " THEN TrimLeft(Tail(s)) ELSE s

RECURSIVE TrimRight(_)
TrimRight(s) ==
  IF s # <<>> /\ s[Len(s)] = " " THEN TrimRight(SubSeq(s, 1, Len(s) - 1)) ELSE s

\* String.prototype.trim
Trim(s) == TrimLeft(TrimRight(s))

\* safeText(v): String(v ?? "").trim()
safeText(s) == Trim(s)

RECURSIVE DropTrailingStars(_)
DropTrailingStars(s) ==
  IF s # <<>> /\ s[Len(s)] = "*" THEN DropTrailingStars(SubSeq(s, 1, Len(s) - 1)) ELSE s

\* s.replace(/\s*\*+\s*$/g, ""): the last run of asterisks, with the white
\* space around it, when the string ends with it; otherwise no match
StripTrailingStars(s) ==
  LET t == TrimRight(s)
  IN IF t # <<>> /\ t[Len(t)] = "*" THEN TrimRight(DropTrailingStars(t)) ELSE s

RECURSIVE ReplaceParens(_)
\* s.replace(/\s*\(([^)]*)\)\s*/g, ...): a metadata parenthetical becomes one
\* space, any other one is kept between two spaces (the white space the
\* pattern also consumes around it is collapsed by the next step anyway)
ReplaceParens(s) ==
  IF s = <<>> THEN <<>>
  ELSE LET c == Head(s)
       IN (IF c \in MetaParens THEN <<" ">>
           ELSE IF c \in OtherParens THEN <<" ", c, " ">>
           ELSE <<c>>) \o ReplaceParens(Tail(s))

RECURSIVE CollapseRuns(_)
\* s.replace(/\s+/g, " ")
CollapseRuns(s) ==
  IF Len(s) < 2 THEN s
  ELSE IF s[1] = " " /\ s[2] = " " THEN CollapseRuns(Tail(s))
  ELSE <<s[1]>> \o CollapseRuns(Tail(s))

\* s.replace(/\s+/g, " ").trim()
CollapseWs(s) == Trim(CollapseRuns(s))

cleanArtistName(raw) == CollapseWs(ReplaceParens(StripTrailingStars(safeText(raw))))

cleanTitle(raw) == CollapseWs(safeText(raw))

LowerTok(c) == IF c = "A" THEN "a" ELSE IF c = "B" THEN "b" ELSE IF c = "T" THEN "t" ELSE c

\* String.prototype.toLowerCase
toLowerCase(s) == [i \in 1..Len(s) |-> LowerTok(s[i])]

\* songKey of chart.js (week-scan script): `${a} — ${t}`.trim() of the cleaned,
\* lower-cased artist and title; the pair stands for the joined string
songKey(title, artist) ==
  [a |-> toLowerCase(cleanArtistName(artist)), t |-> toLowerCase(cleanTitle(title))]

(***************************************************************************)
(* Catalog histories: part_001 (dedupHistory, statsAsOf, getPrevWeek,      *)
(* lastWeekRankImmediate) and the catalog script of chart.js (statsAsOf,   *)
(* lastWeekRankAsOf).  A song object is [found, history]; found = FALSE is *)
(* the null the lookup gives for a song the catalog does not hold.         *)
(***************************************************************************)
Appearance(w, r) == [week |-> w, rank |-> r]

NoSong == [found |-> FALSE, history |-> <<>>]
Song(h) == [found |-> TRUE, history |-> h]

MinOf(a, b) == IF a <= b THEN a ELSE b

\* index of the record of week w in acc, 0 when there is none (Map.has / Map.get)
WeekIndex(acc, w) ==
  IF \E i \in 1..Len(acc) : acc[i].week = w
  THEN CHOOSE i \in 1..Len(acc) : acc[i].week = w
  ELSE 0

\* (mutant of DedupStep: the rank listed last for a week replaces the one held)
DedupStepKeepLast(acc, h) ==
  LET i == WeekIndex(acc, h.week)
  IN IF i = 0 THEN Append(acc, h) ELSE [acc EXCEPT ![i].rank = h.rank]

\* one turn of dedupHistory's loop: bestByWeek.set(w, r) for a new week,
\* bestByWeek.set(w, Math.min(old, r)) for a week already held
DedupStep(acc, h) ==
  LET i == WeekIndex(acc, h.week)
  IN IF i = 0 THEN Append(acc, h) ELSE [acc EXCEPT ![i].rank = MinOf(acc[i].rank, h.rank)]

RECURSIVE DedupFrom(_, _)
DedupFrom(acc, hist) ==
  IF hist = <<>> THEN acc ELSE DedupFrom(DedupStep(acc, Head(hist)), Tail(hist))

\* dedupHistory(history): one record per week, in the order the weeks first
\* occur (a Map keeps insertion order), the lowest rank kept
dedupHistory(hist) == DedupFrom(<<>>, hist)

RECURSIVE UpTo(_, _)
\* hist.filter(h => String(h.week) <= String(weekStr))
UpTo(hist, weekStr) ==
  IF hist = <<>> THEN <<>>
  ELSE (IF Head(hist).week <= weekStr THEN <<Head(hist)>> ELSE <<>>) \o UpTo(Tail(hist), weekStr)

RECURSIVE Before(_, _)
\* hist.filter(h => String(h.week) < String(weekStr))
Before(hist, weekStr) ==
  IF hist = <<>> THEN <<>>
  ELSE (IF Head(hist).week < weekStr THEN <<Head(hist)>> ELSE <<>>) \o Before(Tail(hist), weekStr)

RanksOf(hist) == {hist[i].rank : i \in 1..Len(hist)}
WeeksOf(hist) == {hist[i].week : i \in 1..Len(hist)}

\* (mutant of statsAsOf: the whole history, not only the weeks up to weekStr)
statsAsOfNoFilter(songObj, weekStr) ==
  IF ~songObj.found THEN [peak |-> JsNull, weeks |-> JsNull]
  ELSE LET upTo == dedupHistory(songObj.history)
       IN IF upTo = <<>> THEN [peak |-> JsNull, weeks |-> Num(0)]
          ELSE [peak |-> Num(SetMin(RanksOf(upTo))), weeks |-> Num(Len(upTo))]

\* statsAsOf of part_001: over the de-duplicated history, up to weekStr
statsAsOf(songObj, weekStr) ==
  IF ~songObj.found THEN [peak |-> JsNull, weeks |-> JsNull]
  ELSE LET upTo == UpTo(dedupHistory(songObj.history), weekStr)
       IN IF upTo = <<>> THEN [peak |-> JsNull, weeks |-> Num(0)]
          ELSE [peak |-> Num(SetMin(RanksOf(upTo))), weeks |-> Num(Len(upTo))]

\* statsAsOf of chart.js (catalog script): the same, without de-duplication
statsAsOfChartJs(songObj, weekStr) ==
  IF ~songObj.found THEN [peak |-> JsNull, weeks |-> JsNull]
  ELSE LET upTo == UpTo(songObj.history, weekStr)
       IN IF upTo = <<>> THEN [peak |-> JsNull, weeks |-> Num(0)]
          ELSE [peak |-> Num(SetMin(RanksOf(upTo))), weeks |-> Num(Len(upTo))]

\* weeksNewestFirst.indexOf(currentWeek), 1-based, 0 for -1
IndexOf(list, x) ==
  IF \E i \in 1..Len(list) : list[i] = x
  THEN SetMin({i \in 1..Len(list) : list[i] = x})
  ELSE 0

\* (mutant of getPrevWeek: the element listed before currentWeek)
getPrevWeekBefore(weeksNewestFirst, currentWeek) ==
  LET idx == IndexOf(weeksNewestFirst, currentWeek)
  IN IF idx <= 1 THEN JsNull ELSE Num(weeksNewestFirst[idx - 1])

\* getPrevWeek(weeksNewestFirst, currentWeek): the element listed after
\* currentWeek, null when currentWeek is not listed or is listed last
getPrevWeek(weeksNewestFirst, currentWeek) ==
  LET idx == IndexOf(weeksNewestFirst, currentWeek)
  IN IF idx = 0 THEN JsNull
     ELSE IF idx + 1 > Len(weeksNewestFirst) THEN JsNull
     ELSE Num(weeksNewestFirst[idx + 1])

\* lastWeekRankImmediate(songObj, prevWeekStr): the de-duplicated rank at
\* exactly prevWeekStr, else null
lastWeekRankImmediate(songObj, prevWeekStr) ==
  IF prevWeekStr.t = "null" THEN JsNull
  ELSE IF ~songObj.found THEN JsNull
  ELSE LET hist == dedupHistory(songObj.history)
           i == WeekIndex(hist, prevWeekStr.n)
       IN IF i = 0 THEN JsNull ELSE Num(hist[i].rank)

\* lastWeekRankAsOf of chart.js (catalog script): of the appearances strictly
\* before weekStr, stably sorted by week, the last one (pop)
lastWeekRankAsOf(songObj, weekStr) ==
  IF ~songObj.found THEN JsNull
  ELSE LET prev == Before(songObj.history, weekStr)
       IN IF prev = <<>> THEN JsNull
          ELSE LET m == SetMax(WeeksOf(prev))
                   i == SetMax({j \in 1..Len(prev) : prev[j].week = m})
               IN Num(prev[i].rank)

(***************************************************************************)
(* Rows of the catalog scripts.  An entry of the chart file carries its    *)
(* own movement, lastWeek, peak and weeks; the row is what main displays.  *)
(***************************************************************************)
\* main of part_001, per entry: as-of peak/weeks from the catalog song when
\* there is one; LW null for NEW/RE and without a catalog song, else the
\* rank at the immediately previous manifest week
RowPart001(e, song, asOfWeek, prevWeekStr) ==
  LET asof == statsAsOf(song, asOfWeek)
      lwRank == lastWeekRankImmediate(song, prevWeekStr)
  IN [lw |-> IF e.movement # "new" /\ e.movement # "re" /\ song.found
             THEN (IF lwRank.t = "null" \/ lwRank.t = "nan" THEN JsNull ELSE lwRank)
             ELSE JsNull,
      peak |-> IF song.found /\ asof.peak.t # "null" THEN asof.peak ELSE e.peak,
      weeks |-> IF song.found /\ asof.weeks.t # "null" THEN asof.weeks ELSE e.weeks]

\* (mutant of ExpandPart001: no forceDashLW, the previous week's rank is
\* looked up for every movement type)
ExpandPart001NoForceDash(e, song, asOfWeek, prevWeekStr) ==
  LET asof == statsAsOf(song, asOfWeek)
      lwRank == lastWeekRankImmediate(song, prevWeekStr)
  IN IF song.found
     THEN [lw |-> IF lwRank.t = "null" \/ lwRank.t = "nan" THEN JsNull ELSE lwRank,
           peak |-> IF asof.peak.t # "null" THEN asof.peak ELSE e.peak,
           weeks |-> IF asof.weeks.t # "null" THEN asof.weeks ELSE e.weeks]
     ELSE [lw |-> e.lastWeek, peak |-> e.peak, weeks |-> e.weeks]

\* buildExpandHtml of part_001: the LW / Peak / Weeks pills of the panel
ExpandPart001(e, song, asOfWeek, prevWeekStr) ==
  LET forceDashLW == e.movement = "new" \/ e.movement = "re"
      asof == statsAsOf(song, asOfWeek)
      lwRank == IF forceDashLW THEN JsNull ELSE lastWeekRankImmediate(song, prevWeekStr)
  IN IF song.found
     THEN [lw |-> IF lwRank.t = "null" \/ lwRank.t = "nan" THEN JsNull ELSE lwRank,
           peak |-> IF asof.peak.t # "null" THEN asof.peak ELSE e.peak,
           weeks |-> IF asof.weeks.t # "null" THEN asof.weeks ELSE e.weeks]
     ELSE [lw |-> IF forceDashLW THEN JsNull ELSE e.lastWeek,
           peak |-> e.peak, weeks |-> e.weeks]

\* main of chart.js (catalog script), per entry, and its buildExpandHtml,
\* which computes the same three values
RowChartJsCatalog(e, song, asOfWeek) ==
  LET asof == statsAsOfChartJs(song, asOfWeek)
      lwRank == lastWeekRankAsOf(song, asOfWeek)
  IN IF song.found
     THEN [lw |-> IF lwRank.t = "null" \/ lwRank.t = "nan" THEN JsNull ELSE lwRank,
           peak |-> IF asof.peak.t # "null" THEN asof.peak ELSE e.peak,
           weeks |-> IF asof.weeks.t # "null" THEN asof.weeks ELSE e.weeks]
     ELSE [lw |-> e.lastWeek, peak |-> e.peak, weeks |-> e.weeks]

\* weekToLoad of main: the requested week when the manifest lists it, else
\* the first listed week, else null
WeekToLoad(requested, list) ==
  IF requested.t = "num" /\ IndexOf(list, requested.n) # 0 THEN requested
  ELSE IF list # <<>> THEN Num(list[1])
  ELSE JsNull

(***************************************************************************)
(* Week-scan script of chart.js: buildDerived, deriveEntryForWeek, main.   *)
(* A raw entry is [title, artist, rank] with rank = Number(raw.rank), a    *)
(* number or NaN.  A Map is a function on the set of its keys.             *)
(***************************************************************************)
EmptyMap == [k \in {} |-> 0]

Has(m, k) == k \in DOMAIN m

\* Map.set
Put(m, k, v) == [x \in DOMAIN m \cup {k} |-> IF x = k THEN v ELSE m[x]]

\* (mutant of ScanEntry: the peak stays the rank of the first appearance)
ScanEntryFirstPeak(acc, raw, w) ==
  LET title == cleanTitle(raw.title)
      artist == cleanArtistName(raw.artist)
      key == songKey(title, artist)
      rank == raw.rank
  IN IF title = <<>> \/ artist = <<>> THEN acc
     ELSE IF rank.t # "num" THEN acc
     ELSE LET st0 == IF Has(acc.seenStats, key) THEN acc.seenStats[key]
                     ELSE [weeks |-> 0, peak |-> rank.n, debutDate |-> w, peakDate |-> w]
              st1 == [st0 EXCEPT !.weeks = st0.weeks + 1]
              hist == IF Has(acc.historyMap, key) THEN acc.historyMap[key] ELSE <<>>
          IN [acc EXCEPT
                !.thisWeekRanks = Put(acc.thisWeekRanks, key, rank.n),
                !.historyMap = Put(acc.historyMap, key, Append(hist, Appearance(w, rank.n))),
                !.seenStats = Put(acc.seenStats, key, st1)]

\* buildDerived, the body of the loop over one week's entries: a malformed
\* entry is skipped; otherwise thisWeekRanks.set(key, rank), the appearance
\* is pushed on the key's history and the key's stats are updated
ScanEntry(acc, raw, w) ==
  LET title == cleanTitle(raw.title)
      artist == cleanArtistName(raw.artist)
      key == songKey(title, artist)
      rank == raw.rank
  IN IF title = <<>> \/ artist = <<>> THEN acc
     ELSE IF rank.t # "num" THEN acc
     ELSE LET st0 == IF Has(acc.seenStats, key) THEN acc.seenStats[key]
                     ELSE [weeks |-> 0, peak |-> rank.n, debutDate |-> w, peakDate |-> w]
              st1 == [st0 EXCEPT !.weeks = st0.weeks + 1]
              st2 == IF rank.n < st1.peak THEN [st1 EXCEPT !.peak = rank.n, !.peakDate = w]
                     ELSE st1
              hist == IF Has(acc.historyMap, key) THEN acc.historyMap[key] ELSE <<>>
          IN [acc EXCEPT
                !.thisWeekRanks = Put(acc.thisWeekRanks, key, rank.n),
                !.historyMap = Put(acc.historyMap, key, Append(hist, Appearance(w, rank.n))),
                !.seenStats = Put(acc.seenStats, key, st2)]

RECURSIVE ScanEntries(_, _, _)
\* for (const raw of entries) ...
ScanEntries(acc, entries, w) ==
  IF entries = <<>> THEN acc
  ELSE ScanEntries(ScanEntry(acc, Head(entries), w), Tail(entries), w)

\* weekDataByWeek.get(w)?.entries, [] for a week without data
EntriesOf(weekDataByWeek, w) ==
  IF w \in DOMAIN weekDataByWeek THEN weekDataByWeek[w] ELSE <<>>

RECURSIVE ScanWeeksNoBreak(_, _, _, _)
\* (mutant of ScanWeeks: no break at targetWeek, every listed week is scanned)
ScanWeeksNoBreak(acc, weeksAsc, weekDataByWeek, target) ==
  IF weeksAsc = <<>> THEN acc
  ELSE LET w == Head(weeksAsc)
           a1 == ScanEntries([acc EXCEPT !.thisWeekRanks = EmptyMap],
                             EntriesOf(weekDataByWeek, w), w)
       IN ScanWeeksNoBreak([a1 EXCEPT !.prevWeekRanks = a1.thisWeekRanks],
                           Tail(weeksAsc), weekDataByWeek, target)

RECURSIVE ScanWeeks(_, _, _, _)
\* buildDerived, the loop over weeksAsc: scan the week's entries, stop after
\* targetWeek (prevWeekRanks is then the week before), else carry
\* thisWeekRanks over as prevWeekRanks
ScanWeeks(acc, weeksAsc, weekDataByWeek, target) ==
  IF weeksAsc = <<>> THEN acc
  ELSE LET w == Head(weeksAsc)
           a1 == ScanEntries([acc EXCEPT !.thisWeekRanks = EmptyMap],
                             EntriesOf(weekDataByWeek, w), w)
       IN IF w = target THEN a1
          ELSE ScanWeeks([a1 EXCEPT !.prevWeekRanks = a1.thisWeekRanks],
                         Tail(weeksAsc), weekDataByWeek, target)

\* arr.sort((a, b) => b.week.localeCompare(a.week)) on a history pushed in
\* ascending week order: newest week first, a week's records in their order
\* (the sort is stable)
RECURSIVE SortDesc(_)
SortDesc(hist) ==
  IF hist = <<>> THEN <<>>
  ELSE LET m == SetMax(WeeksOf(hist))
           IsMax(h) == h.week = m
           NotMax(h) == h.week # m
       IN SelectSeq(hist, IsMax) \o SortDesc(SelectSeq(hist, NotMax))

\* buildDerived(weeksAsc, weekDataByWeek, targetWeek)
buildDerived(weeksAsc, weekDataByWeek, target) ==
  LET acc == ScanWeeks([seenStats |-> EmptyMap, historyMap |-> EmptyMap,
                        prevWeekRanks |-> EmptyMap, thisWeekRanks |-> EmptyMap],
                       weeksAsc, weekDataByWeek, target)
  IN [seenStats |-> acc.seenStats,
      historyMap |-> [k \in DOMAIN acc.historyMap |-> SortDesc(acc.historyMap[k])],
      prevWeekRanks |-> acc.prevWeekRanks]

\* (mutant of Classify: the fall keeps the sign of delta)
ClassifySigned(wasEverBefore, isInPrevWeek, lastWeekRank, rank) ==
  LET delta == JsSub(lastWeekRank, rank)
  IN IF ~wasEverBefore THEN [type |-> "new", value |-> JsNull]
     ELSE IF ~isInPrevWeek THEN [type |-> "re", value |-> JsNull]
     ELSE IF JsGt(delta, Num(0)) THEN [type |-> "up", value |-> delta]
     ELSE IF JsLt(delta, Num(0)) THEN [type |-> "down", value |-> delta]
     ELSE [type |-> "same", value |-> Num(0)]

\* deriveEntryForWeek, the movement: NEW when never charted before, RE when
\* charted before but not in the previous week, else by
\* delta = lastWeekRank - rank (null - rank is -rank, NaN compares false)
Classify(wasEverBefore, isInPrevWeek, lastWeekRank, rank) ==
  LET delta == JsSub(lastWeekRank, rank)
  IN IF ~wasEverBefore THEN [type |-> "new", value |-> JsNull]
     ELSE IF ~isInPrevWeek THEN [type |-> "re", value |-> JsNull]
     ELSE IF JsGt(delta, Num(0)) THEN [type |-> "up", value |-> delta]
     ELSE IF JsLt(delta, Num(0)) THEN [type |-> "down", value |-> JsAbs(delta)]
     ELSE [type |-> "same", value |-> Num(0)]

\* (mutant of LwDisplay: the looked-up rank whatever the movement type)
LwDisplayNoDash(movement, lastWeekRank) == lastWeekRank

\* deriveEntryForWeek, the LW display rule: null for NEW and RE
LwDisplay(movement, lastWeekRank) ==
  IF movement.type = "new" \/ movement.type = "re" THEN JsNull ELSE lastWeekRank

\* deriveEntryForWeek(rawEntry, targetWeek, prevWeekRanks, seenStats,
\* historyMap, isInPrevWeek, wasEverBefore); the cover is left out
deriveEntryForWeek(rawEntry, target, prevWeekRanks, seenStats, historyMap, isInPrevWeek, wasEverBefore) ==
  LET title == cleanTitle(rawEntry.title)
      artist == cleanArtistName(rawEntry.artist)
      rank == rawEntry.rank
      key == songKey(title, artist)
      st == IF Has(seenStats, key)
            THEN [weeks |-> Num(seenStats[key].weeks), peak |-> Num(seenStats[key].peak),
                  debutDate |-> Num(seenStats[key].debutDate),
                  peakDate |-> Num(seenStats[key].peakDate)]
            ELSE [weeks |-> JsNull, peak |-> JsNull, debutDate |-> JsNull, peakDate |-> JsNull]
      lastWeekRank == IF Has(prevWeekRanks, key) THEN Num(prevWeekRanks[key]) ELSE JsNull
      movement == Classify(wasEverBefore, isInPrevWeek, lastWeekRank, rank)
  IN [rank |-> rank, title |-> title, artist |-> artist, movement |-> movement,
      lastWeek |-> LwDisplay(movement, lastWeekRank),
      peak |-> st.peak, weeks |-> st.weeks, debutDate |-> st.debutDate,
      peakDate |-> st.peakDate,
      history |-> IF Has(historyMap, key) THEN historyMap[key] ELSE <<>>,
      key |-> key]

\* main: weeksDesc.slice().reverse()
WeeksAscOf(weeksDesc) == Reverse(weeksDesc)

\* main: new Set(prevWeekEntries.map(e => songKey(e.title, e.artist))), the
\* keys of the raw strings of the previous week's entries
PrevWeekSet(prevWeekEntries) ==
  {songKey(prevWeekEntries[i].title, prevWeekEntries[i].artist) :
     i \in 1..Len(prevWeekEntries)}

\* main: wasEverBefore(key), an appearance in historyMap older than targetWeek
WasEverBefore(historyMap, key, target) ==
  Has(historyMap, key) /\ \E i \in 1..Len(historyMap[key]) : historyMap[key][i].week < target

\* main of the week-scan script, from the week list to derivedEntries:
\* every raw entry of the target week file is derived, in file order
DerivedEntriesOf(weeksDesc, weekDataByWeek, target) ==
  LET weeksAsc == WeeksAscOf(weeksDesc)
      targetIdxAsc == IndexOf(weeksAsc, target)
      neededWeeksAsc == SubSeq(weeksAsc, 1, targetIdxAsc)
      d == buildDerived(neededWeeksAsc, weekDataByWeek, target)
      prevWeekEntries == IF targetIdxAsc > 1
                         THEN EntriesOf(weekDataByWeek, weeksAsc[targetIdxAsc - 1])
                         ELSE <<>>
      prevWeekSet == PrevWeekSet(prevWeekEntries)
      rawEntries == EntriesOf(weekDataByWeek, target)
  IN [i \in 1..Len(rawEntries) |->
        LET raw == rawEntries[i]
            key == songKey(cleanTitle(raw.title), cleanArtistName(raw.artist))
        IN deriveEntryForWeek(raw, target, d.prevWeekRanks, d.seenStats, d.historyMap,
                              key \in prevWeekSet,
                              WasEverBefore(d.historyMap, key, target))]

(***************************************************************************)
(* Weekly awards: computeAwardsForWeek (chart.js, week-scan script) and    *)
(* computeAwardsMap (part_001).  An award is [text, n]: the category and   *)
(* the number its text quotes (null when it quotes none).                  *)
(***************************************************************************)
Award(text, n) == [text |-> text, n |-> n]

\* (mutant of AddAward: the key's list is replaced, not pushed on)
AddAwardOverwrite(out, key, a) == Put(out, key, <<a>>)

\* add(key, obj) / addAward(entry, text, cls): push on the key's list
AddAward(out, key, a) ==
  Put(out, key, Append(IF Has(out, key) THEN out[key] ELSE <<>>, a))

NoBest == [set |-> FALSE, key |-> <<>>, n |-> 0, rank |-> JsNull]
Best(key, n, rank) == [set |-> TRUE, key |-> key, n |-> n, rank |-> rank]

\* (mutant of AwardsStep: a tie on delta keeps the entry seen first, and a
\* later NEW / RE entry replaces the hot shot held)
AwardsStepNoTieBreak(acc, e) ==
  LET key == e.key
      rank == e.rank
      d == JsAbs(e.movement.value)
  IN [longestSitter |->
        IF e.weeks.t = "num"
           /\ (~acc.longestSitter.set \/ e.weeks.n > acc.longestSitter.n
               \/ (e.weeks.n = acc.longestSitter.n /\ JsLt(rank, acc.longestSitter.rank)))
        THEN Best(key, e.weeks.n, rank) ELSE acc.longestSitter,
      hotShotDebut |->
        IF e.movement.type = "new" THEN Best(key, 0, rank) ELSE acc.hotShotDebut,
      hotShotReentry |->
        IF e.movement.type = "re" THEN Best(key, 0, rank) ELSE acc.hotShotReentry,
      bestJump |->
        IF e.movement.type = "up" /\ e.movement.value.t = "num"
           /\ (~acc.bestJump.set \/ d.n > acc.bestJump.n)
        THEN Best(key, d.n, rank) ELSE acc.bestJump,
      bestFall |->
        IF e.movement.type = "down" /\ e.movement.value.t = "num"
           /\ (~acc.bestFall.set \/ d.n > acc.bestFall.n)
        THEN Best(key, d.n, rank) ELSE acc.bestFall]

\* computeAwardsForWeek, one turn of its loop over the entries
AwardsStep(acc, e) ==
  LET key == e.key
      rank == e.rank
      d == JsAbs(e.movement.value)
  IN [longestSitter |->
        IF e.weeks.t = "num"
           /\ (~acc.longestSitter.set \/ e.weeks.n > acc.longestSitter.n
               \/ (e.weeks.n = acc.longestSitter.n /\ JsLt(rank, acc.longestSitter.rank)))
        THEN Best(key, e.weeks.n, rank) ELSE acc.longestSitter,
      hotShotDebut |->
        IF e.movement.type = "new"
           /\ (~acc.hotShotDebut.set \/ JsLt(rank, acc.hotShotDebut.rank))
        THEN Best(key, 0, rank) ELSE acc.hotShotDebut,
      hotShotReentry |->
        IF e.movement.type = "re"
           /\ (~acc.hotShotReentry.set \/ JsLt(rank, acc.hotShotReentry.rank))
        THEN Best(key, 0, rank) ELSE acc.hotShotReentry,
      bestJump |->
        IF e.movement.type = "up" /\ e.movement.value.t = "num"
           /\ (~acc.bestJump.set \/ d.n > acc.bestJump.n
               \/ (d.n = acc.bestJump.n /\ JsLt(rank, acc.bestJump.rank)))
        THEN Best(key, d.n, rank) ELSE acc.bestJump,
      bestFall |->
        IF e.movement.type = "down" /\ e.movement.value.t = "num"
           /\ (~acc.bestFall.set \/ d.n > acc.bestFall.n
               \/ (d.n = acc.bestFall.n /\ JsLt(rank, acc.bestFall.rank)))
        THEN Best(key, d.n, rank) ELSE acc.bestFall]

RECURSIVE AwardsLoop(_, _)
AwardsLoop(acc, entries) ==
  IF entries = <<>> THEN acc ELSE AwardsLoop(AwardsStep(acc, Head(entries)), Tail(entries))

\* computeAwardsForWeek(entries): Map(songKey -> awards), added in the order
\* jump, fall, debut, re-entry, sitter
computeAwardsForWeek(entries) ==
  LET b == AwardsLoop([longestSitter |-> NoBest, hotShotDebut |-> NoBest,
                       hotShotReentry |-> NoBest, bestJump |-> NoBest,
                       bestFall |-> NoBest], entries)
      a1 == IF b.bestJump.set
            THEN AddAward(EmptyMap, b.bestJump.key, Award("Biggest Jump", Num(b.bestJump.n)))
            ELSE EmptyMap
      a2 == IF b.bestFall.set
            THEN AddAward(a1, b.bestFall.key, Award("Biggest Fall", Num(b.bestFall.n)))
            ELSE a1
      a3 == IF b.hotShotDebut.set
            THEN AddAward(a2, b.hotShotDebut.key, Award("Hot Shot Debut", JsNull))
            ELSE a2
      a4 == IF b.hotShotReentry.set
            THEN AddAward(a3, b.hotShotReentry.key, Award("Hot Shot Re-Entry", JsNull))
            ELSE a3
  IN IF b.longestSitter.set
     THEN AddAward(a4, b.longestSitter.key, Award("Longest Chart Sitter", JsNull))
     ELSE a4

\* songKey of part_001 and of the catalog script of chart.js:
\* `${artist} - ${title}`.toLowerCase().trim(), no cleaning; the pair stands
\* for the joined string, trimmed at its two ends
songKey001(title, artist) ==
  [a |-> toLowerCase(TrimLeft(artist)), t |-> toLowerCase(TrimRight(title))]

(***************************************************************************)
(* The artist search boxes.  part_001 and part_000 read the catalog: the   *)
(* artist's songs, each with its history.  The week-scan script of         *)
(* chart.js indexes the raw entries of the weeks it loaded.                *)
(***************************************************************************)
RECURSIVE SumLens(_)
SumLens(hists) == IF hists = <<>> THEN 0 ELSE Len(Head(hists)) + SumLens(Tail(hists))

\* show of part_001: entries += dedupHistory(history).length over the songs
EntriesPart001(songs) == SumLens([i \in 1..Len(songs) |-> dedupHistory(songs[i])])

\* show of part_000: entries += history.length over the songs
EntriesPart000(songs) == SumLens(songs)

\* allEntriesForSearch of chart.js main: the raw entries of the needed weeks
RECURSIVE AllEntriesForSearch(_, _)
AllEntriesForSearch(neededWeeksAsc, weekDataByWeek) ==
  IF neededWeeksAsc = <<>> THEN <<>>
  ELSE EntriesOf(weekDataByWeek, Head(neededWeeksAsc))
         \o AllEntriesForSearch(Tail(neededWeeksAsc), weekDataByWeek)

\* setupArtistSearch of chart.js, the loop that builds idx: per cleaned artist
\* name, the set of its songs and entries += 1 for every raw entry
RECURSIVE ArtistIndex(_, _)
ArtistIndex(idx, allWeekEntries) ==
  IF allWeekEntries = <<>> THEN idx
  ELSE LET e == Head(allWeekEntries)
           a == cleanArtistName(e.artist)
           t == cleanTitle(e.title)
           obj == IF Has(idx, a) THEN idx[a] ELSE [songs |-> {}, entries |-> 0]
       IN IF a = <<>> \/ t = <<>> THEN ArtistIndex(idx, Tail(allWeekEntries))
          ELSE ArtistIndex(Put(idx, a, [songs |-> obj.songs \cup {[a |-> toLowerCase(a), t |-> toLowerCase(t)]},
                                        entries |-> obj.entries + 1]),
                           Tail(allWeekEntries))

(***************************************************************************)
(* The catalog lookups of part_001: songLookup by exact key, and           *)
(* songLookupCanon by canonical key, which holds null for a canonical key  *)
(* more than one catalog song has.  A song object is its position in the   *)
(* catalog; NullSong is null.                                              *)
(***************************************************************************)
NullSong == 0
Letters == {"a", "b", "c", "d", "n", "t", "A", "B", "T"}

\* what canon makes of one character: lower case, "&" spelled out, anything
\* that is not a letter or a digit turned into white space
CanonTok(c) ==
  IF c = "&" THEN <<"a", "n", "d">>
  ELSE IF c \in Letters THEN <<LowerTok(c)>>
  ELSE <<" ">>

RECURSIVE CanonToks(_)
CanonToks(s) == IF s = <<>> THEN <<>> ELSE CanonTok(Head(s)) \o CanonToks(Tail(s))

\* canon(str): lower case, "&" -> "and", runs of other characters -> one
\* space, trimmed
canon(str) == CollapseWs(CanonToks(str))

\* canonKey(title, artist): `${canon(artist)} - ${canon(title)}`
canonKey(title, artist) == [a |-> canon(artist), t |-> canon(title)]

\* skey.toLowerCase().trim() of a catalog key, the pair standing for the
\* string `${a} - ${t}`
ExactKey(skey) == songKey001(skey.t, skey.a)

\* exact.split(" - ").length >= 2: the trimmed string still holds " - ", which
\* it does not when nothing is left on one side of the dash
HasParts(exact) == exact.a # <<>> /\ exact.t # <<>>

NoLookups == [songLookup |-> EmptyMap, songLookupCanon |-> EmptyMap]

\* a mutation of CanonSet: tests the stored value, not the presence of the key
CanonSetByValue(m, ck, songObj) ==
  IF ~Has(m, ck) \/ m[ck] = NullSong THEN Put(m, ck, songObj) ELSE Put(m, ck, NullSong)

\* if (!songLookupCanon.has(ck)) set(ck, songObj) else set(ck, null)
CanonSet(m, ck, songObj) ==
  IF ~Has(m, ck) THEN Put(m, ck, songObj) ELSE Put(m, ck, NullSong)

\* the body of the loop over the catalog's songs
LookupStep(l, it) ==
  LET exact == ExactKey(it.skey)
  IN [songLookup |-> Put(l.songLookup, exact, it.song),
      songLookupCanon |->
        IF HasParts(exact)
        THEN CanonSet(l.songLookupCanon, canonKey(exact.t, exact.a), it.song)
        ELSE l.songLookupCanon]

RECURSIVE BuildLookups(_, _)
BuildLookups(l, items) ==
  IF items = <<>> THEN l ELSE BuildLookups(LookupStep(l, Head(items)), Tail(items))

\* findCatalogSong(entry): the exact hit if there is one, else the canonical
\* hit, else null
findCatalogSong(l, e) ==
  LET k == songKey001(e.title, e.artist)
      ck == canonKey(e.title, e.artist)
  IN IF Has(l.songLookup, k) /\ l.songLookup[k] # NullSong THEN l.songLookup[k]
     ELSE IF Has(l.songLookupCanon, ck) THEN l.songLookupCanon[ck]
     ELSE NullSong

\* movementValue(entry): the entry's own movement when it has one (its value
\* through Number(value || 0)), else one worked out from lastWeek
movementValue(e) ==
  IF e.movement.type # "absent"
  THEN [type |-> e.movement.type,
        value |-> IF e.movement.value.t = "num" THEN e.movement.value.n ELSE 0]
  ELSE LET lw == e.lastWeek
           diff == JsSub(lw, e.rank)
       IN IF lw.t # "num" THEN [type |-> "unknown", value |-> 0]
          ELSE IF diff.t # "num" THEN [type |-> "stay", value |-> 0]
          ELSE IF diff.n > 0 THEN [type |-> "up", value |-> diff.n]
          ELSE IF diff.n < 0 THEN [type |-> "down", value |-> 0 - diff.n]
          ELSE [type |-> "stay", value |-> 0]

NoPick == [set |-> FALSE, e |-> <<>>, best |-> 0 - 1]

RECURSIVE BiggestMoveNoTieBreak(_, _, _)
\* (mutant of BiggestMove: on an equal value the entry seen first is kept)
BiggestMoveNoTieBreak(acc, entries, type) ==
  IF entries = <<>> THEN acc
  ELSE LET e == Head(entries)
           m == movementValue(e)
           next == IF m.type = type /\ m.value > acc.best
                   THEN [set |-> TRUE, e |-> e, best |-> m.value]
                   ELSE acc
       IN BiggestMoveNoTieBreak(next, Tail(entries), type)

RECURSIVE BiggestMove(_, _, _)
\* computeAwardsMap, the biggest jump (type "up") and biggest fall (type
\* "down") loops: a larger value wins, an equal value wins with a lower rank
BiggestMove(acc, entries, type) ==
  IF entries = <<>> THEN acc
  ELSE LET e == Head(entries)
           m == movementValue(e)
           next == IF m.type = type /\ m.value > acc.best
                   THEN [set |-> TRUE, e |-> e, best |-> m.value]
                   ELSE IF m.type = type /\ m.value = acc.best /\ acc.set
                           /\ JsLt(e.rank, acc.e.rank)
                   THEN [acc EXCEPT !.e = e]
                   ELSE acc
       IN BiggestMove(next, Tail(entries), type)

\* (mutant of HotShot: the first listed entry of the type, whatever its rank)
HotShotFirstListed(entries, type) ==
  LET idx == {i \in 1..Len(entries) : entries[i].movement.type = type}
  IN IF idx = {} THEN [set |-> FALSE, e |-> <<>>]
     ELSE [set |-> TRUE, e |-> entries[SetMin(idx)]]

\* computeAwardsMap: entries.filter(type).sort(by rank)[0] || null; the sort
\* is stable, so of the entries of lowest rank the first listed
HotShot(entries, type) ==
  LET idx == {i \in 1..Len(entries) : entries[i].movement.type = type}
  IN IF idx = {} THEN [set |-> FALSE, e |-> <<>>]
     ELSE LET low == {i \in idx : \A j \in idx : ~JsLt(entries[j].rank, entries[i].rank)}
          IN [set |-> TRUE, e |-> entries[SetMin(low)]]

\* computeAwardsMap: the weeks of an entry, as of asOfWeek from the catalog
\* song under the entry's exact key, else the entry's own weeks, else 0
SitterWeeks(e, songLookup, asOfWeek) ==
  LET k == songKey001(e.title, e.artist)
      w == IF Has(songLookup, k) THEN statsAsOf(songLookup[k], asOfWeek).weeks
           ELSE Coalesce(e.weeks, Num(0))
  IN IF w.t = "num" THEN w.n ELSE 0

RECURSIVE LongestLoopNoTieBreak(_, _, _, _)
\* (mutant of LongestLoop: on equal weeks the entry seen first is kept)
LongestLoopNoTieBreak(acc, entries, songLookup, asOfWeek) ==
  IF entries = <<>> THEN acc
  ELSE LET e == Head(entries)
           w == SitterWeeks(e, songLookup, asOfWeek)
           next == IF w > acc.best THEN [set |-> TRUE, e |-> e, best |-> w] ELSE acc
       IN LongestLoopNoTieBreak(next, Tail(entries), songLookup, asOfWeek)

RECURSIVE LongestLoop(_, _, _, _)
\* computeAwardsMap, the longest-sitter loop
LongestLoop(acc, entries, songLookup, asOfWeek) ==
  IF entries = <<>> THEN acc
  ELSE LET e == Head(entries)
           w == SitterWeeks(e, songLookup, asOfWeek)
           next == IF w > acc.best THEN [set |-> TRUE, e |-> e, best |-> w]
                   ELSE IF w = acc.best /\ acc.set /\ JsLt(e.rank, acc.e.rank)
                   THEN [acc EXCEPT !.e = e]
                   ELSE acc
       IN LongestLoop(next, Tail(entries), songLookup, asOfWeek)

\* computeAwardsMap(entries, songLookup, asOfWeek): Map(songKey -> awards)
computeAwardsMap(entries, songLookup, asOfWeek) ==
  LET jump == BiggestMove(NoPick, entries, "up")
      fall == BiggestMove(NoPick, entries, "down")
      debut == HotShot(entries, "new")
      reentry == HotShot(entries, "re")
      longest == LongestLoop(NoPick, entries, songLookup, asOfWeek)
      KeyOf(e) == songKey001(e.title, e.artist)
      a1 == IF jump.set
            THEN AddAward(EmptyMap, KeyOf(jump.e), Award("Biggest Jump", Num(jump.best)))
            ELSE EmptyMap
      a2 == IF fall.set
            THEN AddAward(a1, KeyOf(fall.e), Award("Biggest Fall", Num(fall.best)))
            ELSE a1
      a3 == IF debut.set THEN AddAward(a2, KeyOf(debut.e), Award("Hot Shot Debut", JsNull))
            ELSE a2
      a4 == IF reentry.set
            THEN AddAward(a3, KeyOf(reentry.e), Award("Hot Shot Re-Entry", JsNull))
            ELSE a3
  IN IF longest.set
     THEN AddAward(a4, KeyOf(longest.e), Award("Longest Chart Sitter", Num(longest.best)))
     ELSE a4

(***************************************************************************)
(* The pages as state machines.  Each behaviour runs one script; its       *)
(* inputs arrive while pc = "loading" and main renders once.               *)
(***************************************************************************)
NoEntry ==
  [movement |-> "absent", lastWeek |-> JsNull, peak |-> JsNull, weeks |-> JsNull,
   rank |-> JsNull]
NoRow == [by |-> "none", asOfWeek |-> JsNull, prevWeekStr |-> JsNull,
          lw |-> JsNull, peak |-> JsNull, weeks |-> JsNull,
          expandLw |-> JsNull, expandPeak |-> JsNull, expandWeeks |-> JsNull]
NoAwards == [by |-> "none", asOfWeek |-> 0, map |-> EmptyMap]

\* the raw entries a chart file of the catalog scripts may hold: at rank 2,
\* with their own peak and weeks, or (the last one) without them
CatalogEntries ==
  [movement : {"new", "re", "up"}, lastWeek : {JsNull, Num(1)},
   peak : {Num(1)}, weeks : {Num(1)}, rank : {Num(2)}]
  \cup {[movement |-> "up", lastWeek |-> JsNull, peak |-> JsNull, weeks |-> JsNull,
          rank |-> Num(2)]}

\* the raw strings and entries a week file of the week-scan script may hold
RawTitles == {<<"t">>}
\* ("a" and "b" stand for artist names: the second string is the example of
\* chart.js line 43, "fakemink (60.0 pts) (6 listeners)* (new release)")
RawArtists ==
  {<<"a">>,
   <<"a", " ", "(pts)", " ", "(listeners)", "*", " ", "(new release)">>,
   <<"b">>,
   <<"(pts)">>}
RawEntries == [title : RawTitles, artist : RawArtists, rank : {Num(r) : r \in Ranks} \cup {JsNaN}]

\* the classified entries the awards functions may be given
AwardSongs == {"b", "c"}
\* a debut is in its first week, any other entry here in its second
WeeksOnChart(mv) == IF mv.type = "new" THEN 1 ELSE 2
MovementKinds ==
  {[type |-> "new", value |-> JsNull], [type |-> "re", value |-> JsNull],
   [type |-> "same", value |-> Num(0)]}
  \cup {[type |-> ty, value |-> Num(d)] : ty \in {"up", "down"}, d \in 1..MaxDelta}
\* the catalog part_001 looks the week's songs up in: it holds song "c" only,
\* with one week listed twice
AwardCatalog ==
  Put(EmptyMap, songKey001(<<"t">>, <<"c">>),
      Song(<<Appearance(1, 1), Appearance(2, 2), Appearance(2, 1), Appearance(3, 1)>>))

ClassifiedEntry(k, r, mv) ==
  [title |-> <<"t">>, artist |-> <<k>>, key |-> songKey(<<"t">>, <<k>>), rank |-> Num(r),
   weeks |-> Num(WeeksOnChart(mv)), movement |-> mv, lastWeek |-> JsNull]

CatalogIdle == catalogSong = NoSong /\ weeks = <<>> /\ entry = NoEntry /\ row = NoRow
ScanIdle == weekFiles = <<>> /\ targetWeek = 0 /\ derivedEntries = <<>>
AwardsIdle == classified = <<>> /\ awards = NoAwards
NoShown == [by |-> "none", name |-> <<>>, songs |-> 0, entries |-> 0]
SearchIdle == artistSongs = <<>> /\ shown = NoShown
FetchIdle == fetches = EmptyMap /\ weekCache = <<>>
\* every file main asks for loads
NoFailedLoads == [manifest |-> FALSE, latest |-> FALSE, catalog |-> FALSE, weekFiles |-> {}]
NotLooked == -1
NoLookupEntry == [title |-> <<>>, artist |-> <<>>]
LookupIdle == catalog = <<>> /\ lookupEntry = NoLookupEntry /\ lookupHit = NotLooked
CleanIdle == rawTitle = <<>> /\ rawArtist = <<>> /\ otherArtist = <<>> /\ cleaned = EmptyMap

\* no page with expandable rows is rendered, no image is being loaded
NoEvent == [type |-> "none", target |-> 0, defaultPrevented |-> FALSE]
NoDom == [page |-> "none", rows |-> <<>>, event |-> NoEvent, countLabel |-> 0]
NoImg == [src |-> <<>>, tried |-> "", assigns |-> 0, attempted |-> {}, pending |-> FALSE]
RowsIdle == weekRows = <<>> /\ dom = NoDom /\ img = NoImg

InitCatalog ==
  /\ script = "catalog" /\ pc = "loading" /\ failedLoads = NoFailedLoads /\ FetchIdle /\ SearchIdle /\ RowsIdle
  /\ catalogSong \in {NoSong, Song(<<>>)}
  /\ weeks = <<>> /\ entry = NoEntry /\ row = NoRow
  /\ ScanIdle /\ AwardsIdle /\ CleanIdle /\ LookupIdle

InitScan ==
  /\ script = "scan" /\ pc = "loading" /\ failedLoads = NoFailedLoads /\ FetchIdle /\ SearchIdle /\ RowsIdle
  /\ weekFiles = <<>> /\ targetWeek = 0 /\ derivedEntries = <<>>
  /\ CatalogIdle /\ AwardsIdle /\ CleanIdle /\ LookupIdle

InitAwards ==
  /\ script = "awards" /\ pc = "loading" /\ failedLoads = NoFailedLoads /\ FetchIdle /\ SearchIdle /\ RowsIdle
  /\ classified = <<>> /\ awards = NoAwards
  /\ CatalogIdle /\ ScanIdle /\ CleanIdle /\ LookupIdle

\* the strings the cleaning functions may be given: an artist's base name
\* followed by white space, asterisks and metadata parentheticals in any order
\* (<<"(pts)", "(listeners)", "*", "(new release)">> is the example of chart.js
\* line 43), and a second spelling of the same artist in either letter case
BaseArtist == <<"a">>
BaseSpellings == {<<"a">>, <<"A">>}
DecorTokens == {" ", "*"} \cup MetaParens
Decorations(n) == UNION {[1..k -> DecorTokens] : k \in 0..n}

InitClean ==
  /\ script = "clean" /\ pc = "loading" /\ failedLoads = NoFailedLoads /\ FetchIdle /\ SearchIdle /\ RowsIdle
  /\ rawTitle \in RawTitles
  /\ rawArtist \in {BaseArtist \o d : d \in Decorations(MaxDecor)}
  /\ otherArtist \in {b \o d : b \in BaseSpellings, d \in Decorations(MaxOtherDecor)}
  /\ cleaned = EmptyMap
  /\ CatalogIdle /\ ScanIdle /\ AwardsIdle /\ LookupIdle

\* the keys the catalog may hold and the entries looked up: spellings of one
\* artist that share the canonical form "a" (two of them the exact key too),
\* another artist, and a key with nothing after its dash
LookupArtists == {<<"a">>, <<"A">>, <<"a", "!">>, <<"a", "*">>, <<"a", " ">>, <<"b">>}
LookupTitles == {<<"t">>, <<>>}
CatalogKeys == [a : LookupArtists, t : LookupTitles]
LookupEntries == [title : LookupTitles, artist : {<<"a">>, <<"A">>, <<"a", "!">>, <<"b">>}]

InitLookup ==
  /\ script = "lookup" /\ pc = "loading" /\ failedLoads = NoFailedLoads /\ FetchIdle /\ SearchIdle /\ RowsIdle
  /\ catalog = <<>> /\ lookupEntry = NoLookupEntry /\ lookupHit = NotLooked
  /\ CatalogIdle /\ ScanIdle /\ AwardsIdle /\ CleanIdle

InitSearch ==
  /\ script = "search" /\ pc = "loading" /\ failedLoads = NoFailedLoads /\ FetchIdle
  /\ RowsIdle
  /\ artistSongs = <<>> /\ shown = NoShown
  /\ CatalogIdle /\ ScanIdle /\ AwardsIdle /\ CleanIdle /\ LookupIdle

(***************************************************************************)
(* The expandable rows of part_001's chart page and part_000's artist page *)
(***************************************************************************)
MaxRows == 3

EmptyPanel == [kind |-> "empty", of |-> 0]

\* a row as the page renders it: closed, aria-expanded "false", empty panel
ClosedRow(r, title) ==
  [open |-> FALSE, ariaExpanded |-> "false", expand |-> EmptyPanel, display |-> "",
   rank |-> r, title |-> title]

RowRanks == {Num(1), Num(2), JsNaN}
RowTitles == {"t", "u"}
ArtistName == "n"
FilterValues == {"", "t", "u", "n", "z"}

InitAccordion ==
  /\ script = "accordion" /\ pc = "rendered" /\ failedLoads = NoFailedLoads
  /\ FetchIdle /\ SearchIdle /\ weekRows = <<>> /\ img = NoImg
  /\ \/ \E rs \in [1..MaxRows -> RowRanks] :
          dom = [page |-> "part_001", rows |-> [i \in 1..MaxRows |-> ClosedRow(rs[i], "")],
                 event |-> NoEvent, countLabel |-> 0]
     \/ \E ts \in [1..MaxRows -> RowTitles] :
          dom = [page |-> "part_000", rows |-> [i \in 1..MaxRows |-> ClosedRow(JsNull, ts[i])],
                 event |-> NoEvent, countLabel |-> MaxRows]
  /\ CatalogIdle /\ ScanIdle /\ AwardsIdle /\ CleanIdle /\ LookupIdle

\* row i closed: class open removed, aria-expanded "false", panel emptied
Closed(rs, i) ==
  [rs[i] EXCEPT !.open = FALSE, !.ariaExpanded = "false", !.expand = EmptyPanel]

\* row i opened with the panel content given
Opened(rs, i, content) ==
  [rs[i] EXCEPT !.open = TRUE, !.ariaExpanded = "true", !.expand = content]

\* part_001 toggleRow: chart.entries.find(x => Number(x.rank) === rank), the
\* rows standing in the order of chart.entries
FoundEntries(rs, i) ==
  {j \in 1..Len(rs) : /\ ToNumber(rs[j].rank).t = "num"
                      /\ ToNumber(rs[j].rank) = ToNumber(rs[i].rank)}

PanelPart001(rs, i) ==
  IF FoundEntries(rs, i) = {}
  THEN [kind |-> "notfound", of |-> 0]
  ELSE [kind |-> "entry", of |-> CHOOSE j \in FoundEntries(rs, i) :
                                  \A k \in FoundEntries(rs, i) : j <= k]

toggleRow001(rs, i) ==
  IF rs[i].open
  THEN [rs EXCEPT ![i] = Closed(rs, i)]
  ELSE [j \in 1..Len(rs) |->
          IF j = i THEN Opened(rs, i, PanelPart001(rs, i))
          ELSE IF rs[j].open THEN Closed(rs, j) ELSE rs[j]]

\* a mutation of closeAllExcept: closes nothing
closeAllExceptNone(rs, i) == rs

\* part_000 closeAllExcept(row); i = 0 stands for closeAllExcept(null)
closeAllExcept(rs, i) ==
  [j \in 1..Len(rs) |-> IF j # i /\ rs[j].open THEN Closed(rs, j) ELSE rs[j]]

toggleRow000(rs, i) ==
  IF rs[i].open
  THEN [rs EXCEPT ![i] = Closed(rs, i)]
  ELSE LET others == closeAllExcept(rs, i)
       IN [others EXCEPT ![i] = Opened(others, i, [kind |-> "song", of |-> i])]

toggleRow(page, rs, i) ==
  IF page = "part_001" THEN toggleRow001(rs, i) ELSE toggleRow000(rs, i)

NotToggling ==
  UNCHANGED <<weekRows, img, fetchVars, searchVars, loadVars, lookupVars, cleanVars, script, pc,
              catalogSong, weeks, entry, row, weekFiles, targetWeek, derivedEntries, classified,
              awards>>

\* a click on the top of row i
Click(i) ==
  /\ script = "accordion" /\ i \in 1..Len(dom.rows)
  /\ dom' = [dom EXCEPT !.rows = toggleRow(dom.page, dom.rows, i),
                        !.event = [type |-> "click", target |-> i, defaultPrevented |-> FALSE]]
  /\ NotToggling

KeysPressed == {"Enter", " ", "Tab"}

\* a key pressed on the top of row i: Enter and Space toggle, other keys do not
KeyDown(i, key) ==
  /\ script = "accordion" /\ i \in 1..Len(dom.rows)
  /\ dom' = IF key \in {"Enter", " "}
            THEN [dom EXCEPT !.rows = toggleRow(dom.page, dom.rows, i),
                             !.event = [type |-> "keydown", target |-> i,
                                        defaultPrevented |-> TRUE]]
            ELSE [dom EXCEPT !.event = [type |-> "keydown", target |-> i,
                                        defaultPrevented |-> FALSE]]
  /\ NotToggling

\* part_000: the row of a song is shown when the filter is empty or the
\* song's title and the artist's name hold it
Matches(q, title) == q = "" \/ q = title \/ q = ArtistName

\* part_000: input in the song filter
FilterInput(q) ==
  /\ script = "accordion" /\ dom.page = "part_000"
  /\ LET shut == closeAllExcept(dom.rows, 0)
         filtered == [j \in 1..Len(shut) |->
                        [shut[j] EXCEPT !.display =
                           IF Matches(q, shut[j].title) THEN "" ELSE "none"]]
     IN dom' = [dom EXCEPT !.rows = filtered,
                           !.event = [type |-> "input", target |-> 0,
                                      defaultPrevented |-> FALSE],
                           !.countLabel =
                             Cardinality({j \in 1..Len(filtered) : filtered[j].display # "none"})]
  /\ NotToggling

NextAccordion ==
  \/ \E i \in 1..MaxRows : Click(i)
  \/ \E i \in 1..MaxRows, key \in KeysPressed : KeyDown(i, key)
  \/ \E q \in FilterValues : FilterInput(q)

(***************************************************************************)
(* chart.js attachImgFallback: the error handler of a cover image          *)
(***************************************************************************)
MaxSrcLen == 4

SrcTokens == {"covers/", "_", "placeholder", ".png", "x"}
PLACEHOLDER_PRIMARY == <<"covers/", "_", "placeholder", ".png">>
PLACEHOLDER_FALLBACK == <<"covers/", "placeholder", ".png">>

\* String.prototype.includes on token sequences
includes(str, part) ==
  \E k \in 0..(Len(str) - Len(part)) : SubSeq(str, k + 1, k + Len(part)) = part

InitImg ==
  /\ script = "img" /\ pc = "rendered" /\ failedLoads = NoFailedLoads
  /\ FetchIdle /\ SearchIdle /\ weekRows = <<>> /\ dom = NoDom
  /\ \E n \in 0..MaxSrcLen : \E src \in [1..n -> SrcTokens] :
       img = [src |-> src, tried |-> "", assigns |-> 0, attempted |-> {src}, pending |-> TRUE]
  /\ CatalogIdle /\ ScanIdle /\ AwardsIdle /\ CleanIdle /\ LookupIdle

\* img.src = path: the attribute is set and a load of path starts, which fails
SetSrc(im, tried, path) ==
  [im EXCEPT !.tried = tried, !.src = path, !.assigns = im.assigns + 1,
             !.attempted = im.attempted \cup {path}, !.pending = TRUE]

\* the handler attachImgFallback adds, run for the error of the load in flight
onError(im) ==
  IF im.tried = "2" THEN [im EXCEPT !.pending = FALSE]
  ELSE IF includes(im.src, <<"_", "placeholder">>) THEN SetSrc(im, "2", PLACEHOLDER_FALLBACK)
  ELSE IF includes(im.src, <<"placeholder", ".png">>) THEN SetSrc(im, "2", PLACEHOLDER_PRIMARY)
  ELSE SetSrc(im, "1", PLACEHOLDER_FALLBACK)

\* the load in flight fails and the error event is handled
ImgError ==
  /\ script = "img" /\ img.pending
  /\ img' = onError(img)
  /\ UNCHANGED <<weekRows, dom, fetchVars, searchVars, loadVars, lookupVars, cleanVars, script, pc,
                 catalogSong, weeks, entry, row, weekFiles, targetWeek, derivedEntries, classified,
                 awards>>

NextImg == ImgError

Init ==
  \/ InitCatalog \/ InitScan \/ InitAwards \/ InitClean \/ InitLookup \/ InitSearch
  \/ InitAccordion \/ InitImg

\* the exporter adds an appearance (w, r) to the catalog song's history
CatalogAdd(w, r) ==
  /\ script = "catalog" /\ pc = "loading"
  /\ catalogSong.found /\ Len(catalogSong.history) < MaxHist
  /\ catalogSong' = Song(Append(catalogSong.history, Appearance(w, r)))
  /\ UNCHANGED <<loadVars, lookupVars, cleanVars, laterVars, script, pc, weeks, entry, row, weekFiles, targetWeek, derivedEntries,
                 classified, awards>>

\* the exporter lists week w at the head of manifest.weeks
ManifestAdd(w) ==
  /\ script = "catalog" /\ pc = "loading"
  /\ \A i \in 1..Len(weeks) : weeks[i] # w
  /\ weeks' = <<w>> \o weeks
  /\ UNCHANGED <<loadVars, lookupVars, cleanVars, laterVars, script, pc, catalogSong, entry, row, weekFiles, targetWeek, derivedEntries,
                 classified, awards>>

\* main of part_001 for entry e of the chart file of the week to load
\* (asOfWeek is chart.week, the week of the file loaded for weekToLoad)
MainPart001(requested, e) ==
  /\ script = "catalog" /\ pc = "loading"
  /\ weeks # <<>>
  /\ LET asOfWeek == WeekToLoad(requested, weeks).n
         prevWeekStr == getPrevWeek(weeks, asOfWeek)
         r == RowPart001(e, catalogSong, asOfWeek, prevWeekStr)
         x == ExpandPart001(e, catalogSong, asOfWeek, prevWeekStr)
     IN row' = [by |-> "part_001", asOfWeek |-> Num(asOfWeek), prevWeekStr |-> prevWeekStr,
                lw |-> r.lw, peak |-> r.peak, weeks |-> r.weeks,
                expandLw |-> x.lw, expandPeak |-> x.peak, expandWeeks |-> x.weeks]
  /\ entry' = e
  /\ pc' = "rendered"
  /\ UNCHANGED <<loadVars, lookupVars, cleanVars, laterVars, script, catalogSong, weeks, weekFiles, targetWeek, derivedEntries,
                 classified, awards>>

\* main of part_001 when data/catalog.json cannot be loaded: loadJSON throws
\* before the chart file is asked for, main rejects and its catch handler
\* logs the error and alerts its message; no row is rendered
MainPart001CatalogMissing ==
  /\ script = "catalog" /\ pc = "loading"
  /\ weeks # <<>>
  /\ failedLoads' = [failedLoads EXCEPT !.catalog = TRUE]
  /\ pc' = "failed"
  /\ UNCHANGED <<lookupVars, cleanVars, laterVars, script, catalogSong, weeks, entry, row, weekFiles,
                 targetWeek, derivedEntries, classified, awards>>

\* main of chart.js (catalog script) for entry e of the chart file
MainChartJsCatalog(requested, e) ==
  /\ script = "catalog" /\ pc = "loading"
  /\ weeks # <<>>
  /\ LET asOfWeek == WeekToLoad(requested, weeks).n
         r == RowChartJsCatalog(e, catalogSong, asOfWeek)
     IN row' = [by |-> "chart.js", asOfWeek |-> Num(asOfWeek), prevWeekStr |-> JsNull,
                lw |-> r.lw, peak |-> r.peak, weeks |-> r.weeks,
                expandLw |-> r.lw, expandPeak |-> r.peak, expandWeeks |-> r.weeks]
  /\ entry' = e
  /\ pc' = "rendered"
  /\ UNCHANGED <<loadVars, lookupVars, cleanVars, laterVars, script, catalogSong, weeks, weekFiles, targetWeek, derivedEntries,
                 classified, awards>>

NextCatalog ==
  \/ \E w \in WeekIds, r \in Ranks : CatalogAdd(w, r)
  \/ \E w \in WeekIds : ManifestAdd(w)
  \/ \E q \in {JsNull} \cup {Num(w) : w \in WeekIds}, e \in CatalogEntries : MainPart001(q, e)
  \/ \E q \in {JsNull} \cup {Num(w) : w \in WeekIds}, e \in CatalogEntries :
       MainChartJsCatalog(q, e)

\* part_001 with a catalog.json that may be missing
NextDegraded ==
  \/ \E w \in WeekIds, r \in Ranks : CatalogAdd(w, r)
  \/ \E w \in WeekIds : ManifestAdd(w)
  \/ \E q \in {JsNull} \cup {Num(w) : w \in WeekIds}, e \in CatalogEntries : MainPart001(q, e)
  \/ MainPart001CatalogMissing

RECURSIVE TotalLen(_)
TotalLen(files) == IF files = <<>> THEN 0 ELSE Len(Head(files)) + TotalLen(Tail(files))

\* manifest.weeks of the week-scan script: the published weeks, newest first
WeeksDesc == Reverse([i \in 1..Len(weekFiles) |-> i])

\* weekDataByWeek once every needed week file is loaded
WeekData == [w \in 1..Len(weekFiles) |-> weekFiles[w]]

\* the exporter publishes the file of the next week, still without entries
ExportWeek ==
  /\ script = "scan" /\ pc = "loading"
  /\ Len(weekFiles) < MaxWeeks
  /\ weekFiles' = Append(weekFiles, <<>>)
  /\ UNCHANGED <<loadVars, lookupVars, cleanVars, laterVars, script, pc, catalogSong, weeks, entry, row, targetWeek, derivedEntries,
                 classified, awards>>

\* the exporter lists raw entry e in the newest week file
ExportEntry(e) ==
  /\ script = "scan" /\ pc = "loading"
  /\ weekFiles # <<>> /\ TotalLen(weekFiles) < MaxAppearances
  /\ weekFiles' = [weekFiles EXCEPT ![Len(weekFiles)] = Append(@, e)]
  /\ UNCHANGED <<loadVars, lookupVars, cleanVars, laterVars, script, pc, catalogSong, weeks, entry, row, targetWeek, derivedEntries,
                 classified, awards>>

\* main of chart.js (week-scan script) for the requested week
MainChartJs(requested) ==
  /\ script = "scan" /\ pc = "loading"
  /\ weekFiles # <<>>
  /\ LET target == WeekToLoad(requested, WeeksDesc).n
     IN /\ targetWeek' = target
        /\ derivedEntries' = DerivedEntriesOf(WeeksDesc, WeekData, target)
  /\ pc' = "rendered"
  /\ UNCHANGED <<loadVars, lookupVars, cleanVars, laterVars, script, catalogSong, weeks, entry, row, weekFiles, classified, awards>>

\* the files that may fail to load when the week-scan script runs
LoadOutcomes ==
  [manifest : BOOLEAN, latest : BOOLEAN, catalog : {FALSE}, weekFiles : SUBSET WeekIds]

\* data/latest.json: the exporter's copy of the newest week file
LatestJson == [week |-> Len(weekFiles), entries |-> weekFiles[Len(weekFiles)]]

\* main of chart.js (week-scan script) for the requested week, when the files
\* of failing cannot be loaded.  Without the manifest the week list is
\* latest.json's week, and without latest.json either main fails.  A needed
\* week file that is missing counts as a week without entries, except the
\* target week's: its data is then latest.json, and main fails without it.
\* A failure leaves the "Failed to load chart data" row and no entry.
MainChartJsLoads(requested, failing) ==
  /\ script = "scan" /\ pc = "loading"
  /\ weekFiles # <<>>
  /\ failing.weekFiles \subseteq 1..Len(weekFiles)
  /\ failedLoads' = failing
  /\ IF failing.manifest /\ failing.latest
     THEN pc' = "failed" /\ UNCHANGED <<targetWeek, derivedEntries>>
     ELSE LET weeksDesc == IF failing.manifest THEN <<LatestJson.week>> ELSE WeeksDesc
              target == WeekToLoad(requested, weeksDesc).n
              weeksAsc == WeeksAscOf(weeksDesc)
              neededWeeksAsc == SubSeq(weeksAsc, 1, IndexOf(weeksAsc, target))
              weekDataByWeek ==
                [w \in {neededWeeksAsc[i] : i \in 1..Len(neededWeeksAsc)} |->
                   IF w \notin failing.weekFiles THEN weekFiles[w]
                   ELSE IF w = target THEN LatestJson.entries
                   ELSE <<>>]
          IN /\ targetWeek' = target
             /\ IF target \in failing.weekFiles /\ failing.latest
                THEN pc' = "failed" /\ derivedEntries' = <<>>
                ELSE /\ pc' = "rendered"
                     /\ derivedEntries' = DerivedEntriesOf(weeksDesc, weekDataByWeek, target)
  /\ UNCHANGED <<lookupVars, cleanVars, laterVars, script, catalogSong, weeks, entry, row, weekFiles,
                 classified, awards>>

\* the entries the week files hold when loads may fail
FetchEntries ==
  {[title |-> <<"t">>, artist |-> <<"a">>, rank |-> Num(1)],
   [title |-> <<"t">>, artist |-> <<"b">>, rank |-> Num(2)]}

NextFetch ==
  \/ ExportWeek
  \/ \E e \in FetchEntries : ExportEntry(e)
  \/ \E q \in {JsNull} \cup {Num(w) : w \in WeekIds}, f \in LoadOutcomes : MainChartJsLoads(q, f)

(***************************************************************************)
(* main of chart.js (week-scan script) step by step: the week files are    *)
(* fetched concurrently, each callback of the Promise.all settling on its  *)
(* own, and buildDerived runs when the Promise.all has fulfilled.          *)
(* weekCache is weekDataByWeek, a Map: its entries in insertion order.     *)
(***************************************************************************)
NotFetching ==
  UNCHANGED <<rowVars, searchVars, lookupVars, cleanVars, script, catalogSong, weeks, entry, row, weekFiles,
              classified, awards>>

\* weekDataByWeek.set(w, data), for a week not yet in the Map
CacheSet(cache, w, data) == Append(cache, [week |-> w, entries |-> data])

\* the Map as the function weekDataByWeek.get is
CacheMap(cache) ==
  [w \in {cache[i].week : i \in 1..Len(cache)} |->
     cache[CHOOSE i \in 1..Len(cache) : cache[i].week = w].entries]

\* main up to the Promise.all: the target week, and one pending fetch for
\* every week from the oldest listed to the target
FetchStart(requested, failing) ==
  /\ script = "scan" /\ pc = "loading"
  /\ weekFiles # <<>>
  /\ ~failing.manifest /\ failing.weekFiles \subseteq 1..Len(weekFiles)
  /\ failedLoads' = failing
  /\ LET target == WeekToLoad(requested, WeeksDesc).n
         weeksAsc == WeeksAscOf(WeeksDesc)
         neededWeeksAsc == SubSeq(weeksAsc, 1, IndexOf(weeksAsc, target))
     IN /\ targetWeek' = target
        /\ fetches' = [w \in {neededWeeksAsc[i] : i \in 1..Len(neededWeeksAsc)} |-> "pending"]
  /\ weekCache' = <<>>
  /\ pc' = "fetching"
  /\ UNCHANGED derivedEntries
  /\ NotFetching

\* the fetch of week w settles: its data is stored; a missing file is stored
\* as a week without entries, except the target week's, for which the
\* callback goes on to ask for latest.json
WeekFileSettles(w) ==
  /\ script = "scan" /\ pc = "fetching"
  /\ w \in DOMAIN fetches /\ fetches[w] = "pending"
  /\ IF w \notin failedLoads.weekFiles
     THEN /\ weekCache' = CacheSet(weekCache, w, weekFiles[w])
          /\ fetches' = [fetches EXCEPT ![w] = "fulfilled"]
     ELSE IF w = targetWeek
     THEN /\ fetches' = [fetches EXCEPT ![w] = "latest"]
          /\ UNCHANGED weekCache
     ELSE /\ weekCache' = CacheSet(weekCache, w, <<>>)
          /\ fetches' = [fetches EXCEPT ![w] = "fulfilled"]
  /\ UNCHANGED <<pc, failedLoads, targetWeek, derivedEntries>>
  /\ NotFetching

\* the fetch of latest.json in the callback of week w settles: its data is
\* stored as the week's, or the callback rejects
LatestSettles(w) ==
  /\ script = "scan" /\ pc = "fetching"
  /\ w \in DOMAIN fetches /\ fetches[w] = "latest"
  /\ IF failedLoads.latest
     THEN /\ fetches' = [fetches EXCEPT ![w] = "rejected"]
          /\ UNCHANGED weekCache
     ELSE /\ weekCache' = CacheSet(weekCache, w, LatestJson.entries)
          /\ fetches' = [fetches EXCEPT ![w] = "fulfilled"]
  /\ UNCHANGED <<pc, failedLoads, targetWeek, derivedEntries>>
  /\ NotFetching

\* (mutant of AllFulfilled: the first callback to fulfil is enough)
AnyFulfilled(f) == \E w \in DOMAIN f : f[w] = "fulfilled"

\* await Promise.all(...) goes on once every callback has fulfilled
AllFulfilled(f) == \A w \in DOMAIN f : f[w] = "fulfilled"

\* main after the Promise.all: buildDerived and the derived entries
BuildAfterLoads ==
  /\ script = "scan" /\ pc = "fetching"
  /\ AllFulfilled(fetches)
  /\ derivedEntries' = DerivedEntriesOf(WeeksDesc, CacheMap(weekCache), targetWeek)
  /\ pc' = "rendered"
  /\ UNCHANGED <<failedLoads, targetWeek, fetches, weekCache>>
  /\ NotFetching

\* the Promise.all rejects as soon as one callback has: main throws
LoadsReject ==
  /\ script = "scan" /\ pc = "fetching"
  /\ \E w \in DOMAIN fetches : fetches[w] = "rejected"
  /\ pc' = "failed"
  /\ UNCHANGED <<failedLoads, targetWeek, fetches, weekCache, derivedEntries>>
  /\ NotFetching

NextRace ==
  \/ ExportWeek
  \/ \E e \in FetchEntries : ExportEntry(e)
  \/ \E q \in {JsNull} \cup {Num(w) : w \in WeekIds}, f \in LoadOutcomes : FetchStart(q, f)
  \/ \E w \in WeekIds : WeekFileSettles(w)
  \/ \E w \in WeekIds : LatestSettles(w)
  \/ BuildAfterLoads
  \/ LoadsReject

(***************************************************************************)
(* The artist search boxes                                                 *)
(***************************************************************************)
NotSearching ==
  UNCHANGED <<rowVars, fetchVars, loadVars, lookupVars, cleanVars, catalogSong, weeks, entry, row,
              classified, awards>>

\* the raw entries the week files hold here: one song listed at two ranks,
\* and a song of another artist
SearchEntries ==
  {[title |-> <<"t">>, artist |-> <<"a">>, rank |-> Num(1)],
   [title |-> <<"t">>, artist |-> <<"a", "*">>, rank |-> Num(2)],
   [title |-> <<"t">>, artist |-> <<"b">>, rank |-> Num(2)]}
SearchNames == {<<"a">>, <<"b">>}

\* the exporter lists one more song under the artist in catalog.json
ArtistSongAdd ==
  /\ script = "search" /\ pc = "loading"
  /\ Len(artistSongs) < MaxSongs
  /\ artistSongs' = Append(artistSongs, <<>>)
  /\ UNCHANGED <<script, pc, shown, weekFiles, targetWeek, derivedEntries>>
  /\ NotSearching

\* the exporter adds an appearance (w, r) to the history of the artist's song i
ArtistHistoryAdd(i, w, r) ==
  /\ script = "search" /\ pc = "loading"
  /\ i \in 1..Len(artistSongs) /\ SumLens(artistSongs) < MaxHist
  /\ artistSongs' = [artistSongs EXCEPT ![i] = Append(@, Appearance(w, r))]
  /\ UNCHANGED <<script, pc, shown, weekFiles, targetWeek, derivedEntries>>
  /\ NotSearching

\* part_001: the search box shows the artist's item
ArtistSearchPart001 ==
  /\ script = "search" /\ pc = "loading"
  /\ shown' = [by |-> "part_001", name |-> <<"a">>, songs |-> Len(artistSongs),
               entries |-> EntriesPart001(artistSongs)]
  /\ pc' = "rendered"
  /\ UNCHANGED <<script, artistSongs, weekFiles, targetWeek, derivedEntries>>
  /\ NotSearching

\* part_000: the search box shows the artist's item
ArtistSearchPart000 ==
  /\ script = "search" /\ pc = "loading"
  /\ shown' = [by |-> "part_000", name |-> <<"a">>, songs |-> Len(artistSongs),
               entries |-> EntriesPart000(artistSongs)]
  /\ pc' = "rendered"
  /\ UNCHANGED <<script, artistSongs, weekFiles, targetWeek, derivedEntries>>
  /\ NotSearching

\* chart.js (week-scan script): main for the requested week, which ends by
\* indexing the entries of the weeks it loaded, and the search box showing
\* the item of artist name
ArtistSearchChartJs(requested, name) ==
  /\ script = "scan" /\ pc = "loading"
  /\ weekFiles # <<>>
  /\ LET target == WeekToLoad(requested, WeeksDesc).n
         weeksAsc == WeeksAscOf(WeeksDesc)
         neededWeeksAsc == SubSeq(weeksAsc, 1, IndexOf(weeksAsc, target))
         idx == ArtistIndex(EmptyMap, AllEntriesForSearch(neededWeeksAsc, WeekData))
     IN /\ targetWeek' = target
        /\ derivedEntries' = DerivedEntriesOf(WeeksDesc, WeekData, target)
        /\ Has(idx, name)
        /\ shown' = [by |-> "chart.js", name |-> name, songs |-> Cardinality(idx[name].songs),
                     entries |-> idx[name].entries]
  /\ pc' = "rendered"
  /\ UNCHANGED <<script, artistSongs, weekFiles>>
  /\ NotSearching

NextSearch ==
  \/ ArtistSongAdd
  \/ \E i \in 1..MaxSongs, w \in WeekIds, r \in Ranks : ArtistHistoryAdd(i, w, r)
  \/ ArtistSearchPart001
  \/ ArtistSearchPart000
  \/ ExportWeek
  \/ \E e \in SearchEntries : ExportEntry(e)
  \/ \E q \in {JsNull} \cup {Num(w) : w \in WeekIds}, a \in SearchNames : ArtistSearchChartJs(q, a)

NextScan ==
  \/ ExportWeek
  \/ \E e \in RawEntries : ExportEntry(e)
  \/ \E q \in {JsNull} \cup {Num(w) : w \in WeekIds} : MainChartJs(q)

\* one more classified entry is listed for the week, at a rank not yet taken
AddClassified(k, r, mv) ==
  /\ script = "awards" /\ pc = "loading"
  /\ Len(classified) < MaxAwardEntries
  /\ \A i \in 1..Len(classified) : classified[i].rank # Num(r)
  /\ classified' = Append(classified, ClassifiedEntry(k, r, mv))
  /\ UNCHANGED <<loadVars, lookupVars, cleanVars, laterVars, script, pc, catalogSong, weeks, entry, row, weekFiles, targetWeek,
                 derivedEntries, awards>>

\* computeAwardsForWeek(derivedEntries) of chart.js
AwardsChartJs ==
  /\ script = "awards" /\ pc = "loading"
  /\ awards' = [by |-> "chart.js", asOfWeek |-> 0, map |-> computeAwardsForWeek(classified)]
  /\ pc' = "rendered"
  /\ UNCHANGED <<loadVars, lookupVars, cleanVars, laterVars, script, catalogSong, weeks, entry, row, weekFiles, targetWeek,
                 derivedEntries, classified>>

\* computeAwardsMap(chart.entries, songLookup, asOfWeek) of part_001, for
\* the chart of week w
AwardsPart001(w) ==
  /\ script = "awards" /\ pc = "loading"
  /\ awards' = [by |-> "part_001", asOfWeek |-> w,
                map |-> computeAwardsMap(classified, AwardCatalog, w)]
  /\ pc' = "rendered"
  /\ UNCHANGED <<loadVars, lookupVars, cleanVars, laterVars, script, catalogSong, weeks, entry, row, weekFiles, targetWeek,
                 derivedEntries, classified>>

(***************************************************************************)
(* main of part_001 for a whole chart: the awards map and the rows, each   *)
(* entry being resolved to its catalog song                                *)
(***************************************************************************)
\* the catalog of this page: one song, a week of its history listed twice
SitterCatalog == <<[skey |-> [a |-> <<"c">>, t |-> <<"t">>], song |-> 1]>>
SitterSongs ==
  <<Song(<<Appearance(1, 1), Appearance(2, 2), Appearance(2, 1), Appearance(3, 1)>>)>>

\* the artists of the chart's entries: the catalog's spelling, a spelling with
\* the same canonical key only, and an artist the catalog does not hold
SitterArtists == {<<"c">>, <<"c", "!">>, <<"b">>}
SitterMovements ==
  {[type |-> "new", value |-> JsNull], [type |-> "same", value |-> Num(0)]}

\* songLookup as computeAwardsMap is given it: exact key -> song object
SongLookupOf(l, songs) == [k \in DOMAIN l.songLookup |-> songs[l.songLookup[k]]]

\* main, per entry: the song findCatalogSong resolves it to
CatalogSongOf(l, songs, e) ==
  LET hit == findCatalogSong(l, e)
  IN IF hit = NullSong THEN NoSong ELSE songs[hit]

\* main, per entry: weeksDisplay, the entry's own weeks unless the catalog
\* song has weeks as of the week shown
WeeksDisplay(e, song, asOfWeek) ==
  LET asof == statsAsOf(song, asOfWeek)
  IN IF song.found /\ asof.weeks.t # "null" THEN asof.weeks ELSE e.weeks

\* one more entry is listed for the week, at a rank not yet taken
AddListed(a, r, mv) ==
  /\ script = "awards" /\ pc = "loading"
  /\ Len(classified) < MaxAwardEntries
  /\ \A i \in 1..Len(classified) : classified[i].rank # Num(r)
  /\ classified' = Append(classified,
                          [title |-> <<"t">>, artist |-> a, key |-> songKey(<<"t">>, a),
                           rank |-> Num(r), weeks |-> Num(WeeksOnChart(mv)),
                           movement |-> mv, lastWeek |-> JsNull])
  /\ UNCHANGED <<loadVars, lookupVars, cleanVars, laterVars, script, pc, catalogSong, weeks, entry,
                 row, weekFiles, targetWeek, derivedEntries, awards>>

\* main of part_001 for the chart of week w: the awards map, then the rows
MainRowsPart001(w) ==
  /\ script = "awards" /\ pc = "loading"
  /\ LET l == BuildLookups(NoLookups, SitterCatalog)
     IN /\ awards' = [by |-> "part_001", asOfWeek |-> w,
                      map |-> computeAwardsMap(classified, SongLookupOf(l, SitterSongs), w)]
        /\ weekRows' = [i \in 1..Len(classified) |->
                          WeeksDisplay(classified[i],
                                       CatalogSongOf(l, SitterSongs, classified[i]), w)]
  /\ pc' = "rendered"
  /\ UNCHANGED <<dom, img, loadVars, lookupVars, cleanVars, fetchVars, searchVars, script, catalogSong,
                 weeks, entry, row, weekFiles, targetWeek, derivedEntries, classified>>

NextSitter ==
  \/ \E a \in SitterArtists, r \in 1..MaxAwardEntries, mv \in SitterMovements : AddListed(a, r, mv)
  \/ \E w \in WeekIds : MainRowsPart001(w)

NextAwards ==
  \/ \E k \in AwardSongs, r \in 1..MaxAwardEntries, mv \in MovementKinds : AddClassified(k, r, mv)
  \/ AwardsChartJs
  \/ \E w \in WeekIds : AwardsPart001(w)

(***************************************************************************)
(* The cleaning functions, applied to the strings drawn by InitClean       *)
(***************************************************************************)
NotCleaning ==
  UNCHANGED <<loadVars, lookupVars, laterVars, script, pc, catalogSong, weeks, entry, row, weekFiles, targetWeek,
              derivedEntries, classified, awards, rawTitle, rawArtist, otherArtist>>

\* chart.js cleanArtistName(raw)
ApplyCleanArtistName ==
  /\ script = "clean" /\ ~Has(cleaned, "cleanArtistName")
  /\ cleaned' = Put(cleaned, "cleanArtistName", cleanArtistName(rawArtist))
  /\ NotCleaning

\* chart.js songKey(title, artist), for the two spellings of the artist
ApplySongKey ==
  /\ script = "clean" /\ ~Has(cleaned, "songKey")
  /\ cleaned' = Put(cleaned, "songKey",
                    <<songKey(rawTitle, rawArtist), songKey(rawTitle, otherArtist)>>)
  /\ NotCleaning

\* part_001 songKey(artist, title), for the two spellings of the artist
ApplySongKey001 ==
  /\ script = "clean" /\ ~Has(cleaned, "songKey001")
  /\ cleaned' = Put(cleaned, "songKey001",
                    <<songKey001(rawTitle, rawArtist), songKey001(rawTitle, otherArtist)>>)
  /\ NotCleaning

\* chart.js main and buildDerived: the strings are cleaned, and the key is
\* songKey of the cleaned strings, which cleans them again
ApplySongKeyOfCleaned ==
  /\ script = "clean" /\ ~Has(cleaned, "keyOfCleaned")
  /\ cleaned' = Put(cleaned, "keyOfCleaned",
                    LET title == cleanTitle(rawTitle)
                        artist == cleanArtistName(rawArtist)
                    IN [artist |-> artist, again |-> cleanArtistName(artist),
                        key |-> songKey(title, artist)])
  /\ NotCleaning

NextClean ==
  ApplyCleanArtistName \/ ApplySongKey \/ ApplySongKey001 \/ ApplySongKeyOfCleaned

(***************************************************************************)
(* The catalog lookup of part_001                                          *)
(***************************************************************************)
NotLooking ==
  UNCHANGED <<loadVars, cleanVars, laterVars, script, catalogSong, weeks, entry, row, weekFiles,
              targetWeek, derivedEntries, classified, awards>>

\* the exporter writes one more song in catalog.json, under a key no song has
CatalogKeyAdd(k) ==
  /\ script = "lookup" /\ pc = "loading"
  /\ Len(catalog) < MaxCatalogKeys
  /\ \A i \in 1..Len(catalog) : catalog[i].skey # k
  /\ catalog' = Append(catalog, [skey |-> k, song |-> Len(catalog) + 1])
  /\ UNCHANGED <<pc, lookupEntry, lookupHit>>
  /\ NotLooking

\* main of part_001 builds the two lookups from the catalog and looks entry e up
FindCatalogSong(e) ==
  /\ script = "lookup" /\ pc = "loading"
  /\ lookupEntry' = e
  /\ lookupHit' = findCatalogSong(BuildLookups(NoLookups, catalog), e)
  /\ pc' = "rendered"
  /\ UNCHANGED catalog
  /\ NotLooking

NextLookup ==
  \/ \E k \in CatalogKeys : CatalogKeyAdd(k)
  \/ \E e \in LookupEntries : FindCatalogSong(e)

Next == NextCatalog \/ NextScan \/ NextAwards \/ NextClean \/ NextLookup \/ NextDegraded
          \/ NextFetch \/ NextRace \/ NextSearch \/ NextSitter \/ NextAccordion \/ NextImg

Spec == Init /\ [][Next]_vars
SpecCatalog == InitCatalog /\ [][NextCatalog]_vars
SpecScan == InitScan /\ [][NextScan]_vars
SpecAwards == InitAwards /\ [][NextAwards]_vars
SpecClean == InitClean /\ [][NextClean]_vars
SpecLookup == InitLookup /\ [][NextLookup]_vars
SpecDegraded == InitCatalog /\ [][NextDegraded]_vars
SpecFetch == InitScan /\ [][NextFetch]_vars
SpecRace == InitScan /\ [][NextRace]_vars
SpecSitter == InitAwards /\ [][NextSitter]_vars
SpecAccordion == InitAccordion /\ [][NextAccordion]_vars
SpecImg == InitImg /\ [][NextImg]_vars
SpecSearch == (InitSearch \/ InitScan) /\ [][NextSearch]_vars
SpecStats == (InitCatalog \/ InitScan) /\ [][NextCatalog \/ NextScan]_vars

\* the exporter alone: the catalog history and the week files grow
NextIngest ==
  \/ \E w \in WeekIds, r \in Ranks : CatalogAdd(w, r)
  \/ ExportWeek
  \/ \E e \in RawEntries : ExportEntry(e)

SpecIngest == (InitCatalog \/ InitScan) /\ [][NextIngest]_vars

NextHistory == \E w \in WeekIds, r \in Ranks : CatalogAdd(w, r)

SpecHistory == InitCatalog /\ [][NextHistory]_vars

(***************************************************************************)
(* Properties.                                                             *)
(***************************************************************************)
\* buildDerived over every published week, for target week W
ScanOf(files, W) ==
  buildDerived([i \in 1..Len(files) |-> i], [w \in 1..Len(files) |-> files[w]], W)

\* a step of the exporter that leaves the data of the weeks up to W alone
LaterThan(W) ==
  /\ W \in 1..Len(weekFiles)
  /\ weekFiles' # weekFiles
  /\ \A w \in 1..W : weekFiles'[w] = weekFiles[w]

\* C1 (as-of purity): an appearance added to a song's history at a week
\* later than W changes neither the peak nor the weeks count that statsAsOf
\* returns for W (part_001 and the catalog script of chart.js), and week
\* files or entries published after W change neither the seenStats nor the
\* prevWeekRanks that buildDerived computes for target week W.
AsOfPurity ==
  [][/\ \A W \in WeekIds :
          (/\ script = "catalog" /\ catalogSong.found /\ catalogSong'.found
           /\ Len(catalogSong'.history) = Len(catalogSong.history) + 1
           /\ catalogSong'.history[Len(catalogSong'.history)].week > W)
          => /\ statsAsOf(catalogSong', W) = statsAsOf(catalogSong, W)
             /\ statsAsOfChartJs(catalogSong', W) = statsAsOfChartJs(catalogSong, W)
     /\ \A W \in WeekIds :
          (script = "scan" /\ LaterThan(W))
          => /\ ScanOf(weekFiles', W).seenStats = ScanOf(weekFiles, W).seenStats
             /\ ScanOf(weekFiles', W).prevWeekRanks = ScanOf(weekFiles, W).prevWeekRanks
    ]_vars

\* C1, its case: a song charted in week 1 and a later appearance at a better
\* rank has been added, the as-of figures of week 1 still being those of
\* week 1 alone
AsOfPurityWitness ==
  /\ script = "catalog" /\ catalogSong.found
  /\ Len(catalogSong.history) = 2
  /\ catalogSong.history[1] = Appearance(1, 2)
  /\ catalogSong.history[2] = Appearance(2, 1)
  /\ statsAsOf(catalogSong, 1) = [peak |-> Num(2), weeks |-> Num(1)]
  /\ statsAsOf(catalogSong, 2) = [peak |-> Num(1), weeks |-> Num(2)]

\* manifest.weeks lists the weeks newest first
IsNewestFirst(list) == \A i \in 1..Len(list) : \A j \in 1..Len(list) : i < j => list[i] > list[j]

\* the rank to expect as LW for chart week W: the lowest rank of the
\* history at the latest listed week before W, null when there is no such
\* week or no appearance at it
PriorRank(list, songObj, W) ==
  LET earlier == {list[i] : i \in 1..Len(list)} \cap {w \in WeekIds : w < W}
  IN IF earlier = {} \/ ~songObj.found THEN JsNull
     ELSE LET P == SetMax(earlier)
              at == {songObj.history[i].rank :
                       i \in {j \in 1..Len(songObj.history) : songObj.history[j].week = P}}
          IN IF at = {} THEN JsNull ELSE Num(SetMin(at))

\* C2 as written (for any manifest week list): the last-week rank from
\* getPrevWeek and lastWeekRankImmediate is the de-duplicated rank at the
\* published week chronologically just before W, null without one.
ImmediatePriorRankAnyManifest ==
  (script = "catalog" /\ pc = "rendered" /\ row.by = "part_001")
  => /\ lastWeekRankImmediate(catalogSong, row.prevWeekStr)
          = PriorRank(weeks, catalogSong, row.asOfWeek.n)
     /\ (entry.movement = "up" /\ catalogSong.found)
          => row.lw = PriorRank(weeks, catalogSong, row.asOfWeek.n)

\* C2 (immediate-prior rank), amended: for a manifest week list ordered
\* newest first, history H and chart week W, the last-week rank from
\* getPrevWeek and lastWeekRankImmediate is H's de-duplicated rank at the
\* published week just before W, and null when H has no appearance at that
\* week or W is the oldest published week.
ImmediatePriorRank ==
  (script = "catalog" /\ pc = "rendered" /\ row.by = "part_001" /\ IsNewestFirst(weeks))
  => /\ lastWeekRankImmediate(catalogSong, row.prevWeekStr)
          = PriorRank(weeks, catalogSong, row.asOfWeek.n)
     /\ (entry.movement = "up" /\ catalogSong.found)
          => row.lw = PriorRank(weeks, catalogSong, row.asOfWeek.n)

\* C2, its case: weeks 3, 2, 1 are listed newest first, week 3 is shown, the
\* song is listed twice at week 2 and LW is the lower of the two ranks
ImmediatePriorRankWitness ==
  /\ script = "catalog" /\ pc = "rendered" /\ row.by = "part_001"
  /\ weeks = <<3, 2, 1>> /\ row.asOfWeek = Num(3) /\ row.prevWeekStr = Num(2)
  /\ entry.movement = "up" /\ catalogSong.found
  /\ Appearance(2, 2) \in {catalogSong.history[i] : i \in 1..Len(catalogSong.history)}
  /\ Appearance(2, 1) \in {catalogSong.history[i] : i \in 1..Len(catalogSong.history)}
  /\ row.lw = Num(1)

\* C3 (no stale LW): in the catalog renderer of chart.js, a song with an
\* earlier appearance but none at the published week just before the shown
\* week has a null LW, in the row and in the expand panel.
NoStaleLastWeek ==
  (/\ script = "catalog" /\ pc = "rendered" /\ row.by = "chart.js"
   /\ IsNewestFirst(weeks) /\ catalogSong.found
   /\ Before(catalogSong.history, row.asOfWeek.n) # <<>>
   /\ \E i \in 1..Len(weeks) : weeks[i] < row.asOfWeek.n
   /\ PriorRank(weeks, catalogSong, row.asOfWeek.n) = JsNull)
  => row.lw = JsNull /\ row.expandLw = JsNull

\* a raw entry the pipeline is to keep: numeric rank, non-empty cleaned
\* title and artist
WellFormed(raw) ==
  raw.rank.t = "num" /\ cleanTitle(raw.title) # <<>> /\ cleanArtistName(raw.artist) # <<>>

\* the song key buildDerived files a raw entry under
KeyOfRaw(raw) == songKey(cleanTitle(raw.title), cleanArtistName(raw.artist))

\* the ranks at which the file of week w lists song k (well-formed entries)
RanksIn(w, k) ==
  {weekFiles[w][j].rank.n :
     j \in {x \in 1..Len(weekFiles[w]) : WellFormed(weekFiles[w][x]) /\ KeyOfRaw(weekFiles[w][x]) = k}}

\* the movement to expect for song k at rank r in target week T
ExpectedMovement(k, r, T) ==
  IF \A w \in 1..(T - 1) : RanksIn(w, k) = {} THEN [type |-> "new", value |-> JsNull]
  ELSE IF RanksIn(T - 1, k) = {} THEN [type |-> "re", value |-> JsNull]
  ELSE LET d == SetMin(RanksIn(T - 1, k)) - r
       IN IF d > 0 THEN [type |-> "up", value |-> Num(d)]
          ELSE IF d < 0 THEN [type |-> "down", value |-> Num(0 - d)]
          ELSE [type |-> "same", value |-> Num(0)]

\* C4 (movement classification): in the week-scan pipeline every well-formed
\* entry of the target week is NEW exactly when its song appears in no
\* earlier published week, RE exactly when it appears in an earlier week but
\* not in the week just before, and otherwise UP(d), DOWN(|d|) or SAME by
\* d = priorRank - currentRank, priorRank being the song's rank in the week
\* just before.
MovementClassification ==
  (script = "scan" /\ pc = "rendered")
  => \A i \in 1..Len(derivedEntries) :
       WellFormed(weekFiles[targetWeek][i])
       => derivedEntries[i].movement
            = ExpectedMovement(derivedEntries[i].key, derivedEntries[i].rank.n, targetWeek)

\* C5 (NEW/RE dash invariant): an entry whose movement type is new or re is
\* displayed with a null last-week value, in the row and in the expand
\* panel, whatever the song's history and the entry's own lastWeek: for
\* deriveEntryForWeek of chart.js and for the row and buildExpandHtml of
\* part_001.
NewReDash ==
  /\ (script = "scan" /\ pc = "rendered")
     => \A i \in 1..Len(derivedEntries) :
          derivedEntries[i].movement.type \in {"new", "re"}
          => derivedEntries[i].lastWeek = JsNull /\ fmtRankOrDash(derivedEntries[i].lastWeek) = "dash"
  /\ (script = "catalog" /\ pc = "rendered" /\ row.by = "part_001"
      /\ entry.movement \in {"new", "re"})
     => row.lw = JsNull /\ row.expandLw = JsNull

\* C5, its case: part_001 shows a re-entry whose raw entry carries a
\* lastWeek and whose song charted at the previous manifest week; LW is a
\* dash in the row and in the panel
NewReDashWitness ==
  /\ script = "catalog" /\ pc = "rendered" /\ row.by = "part_001"
  /\ entry.movement = "re" /\ entry.lastWeek = Num(1)
  /\ lastWeekRankImmediate(catalogSong, row.prevWeekStr) # JsNull
  /\ row.lw = JsNull /\ row.expandLw = JsNull

\* C6 (de-duplication): dedupHistory returns exactly one record per
\* distinct week of its input, with the lowest rank the input lists for that
\* week; adding a record that is already present, or applying dedupHistory
\* to its own output, does not change the result.
DedupOnePerWeek ==
  (script = "catalog" /\ catalogSong.found)
  => LET h == catalogSong.history
         d == dedupHistory(h)
     IN /\ WeeksOf(d) = WeeksOf(h)
        /\ Len(d) = Cardinality(WeeksOf(h))
        /\ \A i \in 1..Len(d) :
             d[i].rank = SetMin({h[j].rank : j \in {x \in 1..Len(h) : h[x].week = d[i].week}})
        /\ dedupHistory(d) = d
        /\ \A j \in 1..Len(h) :
             /\ dedupHistory(Append(h, h[j])) = d
             /\ \A at \in 0..Len(h) :
                  LET g == dedupHistory(SubSeq(h, 1, at) \o <<h[j]>> \o SubSeq(h, at + 1, Len(h)))
                  IN {g[x] : x \in 1..Len(g)} = {d[x] : x \in 1..Len(d)}

\* C6, its case: the export of scenario D, one week listed twice, the
\* better rank second, and another week
DedupOnePerWeekWitness ==
  /\ script = "catalog" /\ catalogSong.found
  /\ catalogSong.history = <<Appearance(2, 2), Appearance(2, 1), Appearance(1, 2)>>
  /\ dedupHistory(catalogSong.history) = <<Appearance(2, 1), Appearance(1, 2)>>

\* C7 (week-scan history de-duplicated): the history buildDerived builds
\* for a song holds at most one appearance per week, the lowest rank the
\* week's file lists for the song, and the song's weeks count is the number
\* of distinct weeks up to the target week in which the song appears.
ScanHistoryDeduplicated ==
  (script = "scan" /\ pc = "rendered")
  => \A i \in 1..Len(derivedEntries) :
       WellFormed(weekFiles[targetWeek][i])
       => LET h == derivedEntries[i].history
              k == derivedEntries[i].key
          IN /\ \A a \in 1..Len(h) : \A b \in 1..Len(h) : a # b => h[a].week # h[b].week
             /\ \A a \in 1..Len(h) : h[a].rank = SetMin(RanksIn(h[a].week, k))
             /\ derivedEntries[i].weeks
                  = Num(Cardinality({w \in 1..targetWeek : RanksIn(w, k) # {}}))

\* the movement is one of the five types, with a positive number for a
\* climb or a fall
Exhaustive(m) ==
  /\ m.type \in {"new", "re", "up", "down", "same"}
  /\ m.type \in {"up", "down"} => m.value.t = "num" /\ m.value.n > 0

\* C8 (movement exhaustiveness): for a raw entry of the target week with
\* non-empty cleaned title and artist and a numeric rank, deriveEntryForWeek
\* returns a movement of type new, re, up, down or same, with a positive
\* numeric value for up and down, for the flags main passes and for any
\* other combination of isInPrevWeek and wasEverBefore.
MovementExhaustive ==
  (script = "scan" /\ pc = "rendered")
  => \A i \in 1..Len(derivedEntries) :
       WellFormed(weekFiles[targetWeek][i])
       => /\ Exhaustive(derivedEntries[i].movement)
          /\ \A p \in BOOLEAN : \A b \in BOOLEAN :
               Exhaustive(deriveEntryForWeek(weekFiles[targetWeek][i], targetWeek,
                                             ScanOf(weekFiles, targetWeek).prevWeekRanks,
                                             ScanOf(weekFiles, targetWeek).seenStats,
                                             ScanOf(weekFiles, targetWeek).historyMap,
                                             p, b).movement)

\* C8, its case: a song at rank 1 the week before is at rank 2 in the
\* target week and is derived as a fall of 1
MovementExhaustiveWitness ==
  /\ script = "scan" /\ pc = "rendered" /\ targetWeek = 2
  /\ Len(derivedEntries) = 1 /\ WellFormed(weekFiles[2][1])
  /\ derivedEntries[1].rank = Num(2)
  /\ derivedEntries[1].movement = [type |-> "down", value |-> Num(1)]

\* the key the awards function that ran files entry e under
EntryKey(e) == IF awards.by = "chart.js" THEN e.key ELSE songKey001(e.title, e.artist)

\* the awards of category text listed under key k
AwardsAt(k, text) ==
  IF Has(awards.map, k)
  THEN {j \in 1..Len(awards.map[k]) : awards.map[k][j].text = text}
  ELSE {}

\* the listed entries of movement type ty
OfType(ty) == {i \in 1..Len(classified) : classified[i].movement.type = ty}

\* of the entries in idx, the one of lowest rank
LowestRanked(idx) ==
  CHOOSE i \in idx : \A j \in idx : classified[i].rank.n <= classified[j].rank.n

\* the entry to expect as biggest mover of type ty: maximal delta, then
\* lowest rank
BiggestOf(ty) ==
  LET top == SetMax({classified[i].movement.value.n : i \in OfType(ty)})
  IN LowestRanked({i \in OfType(ty) : classified[i].movement.value.n = top})

\* the award of category text is listed once, under the key of entry i and
\* under no other key
GoesTo(text, i) ==
  \A k \in DOMAIN awards.map \cup {EntryKey(classified[i])} :
    IF k = EntryKey(classified[i]) THEN Cardinality(AwardsAt(k, text)) = 1
    ELSE AwardsAt(k, text) = {}

\* no key is listed with an award of category text
NotGiven(text) == \A k \in DOMAIN awards.map : AwardsAt(k, text) = {}

\* the biggest-mover award of type ty and category text is rightly given
BiggestRight(ty, text) ==
  IF OfType(ty) = {} THEN NotGiven(text)
  ELSE LET i == BiggestOf(ty)
           k == EntryKey(classified[i])
       IN /\ GoesTo(text, i)
          /\ \A j \in AwardsAt(k, text) : awards.map[k][j].n = classified[i].movement.value

\* C9 (Biggest Jump / Biggest Fall): for entries with distinct ranks, the
\* Biggest Jump award goes to the up entry of maximal delta and the Biggest
\* Fall award to the down entry of maximal delta, a tie on delta going to
\* the lowest rank, and the award quotes that delta; for computeAwardsForWeek
\* of chart.js and computeAwardsMap of part_001.
BiggestJumpFall ==
  (script = "awards" /\ pc = "rendered")
  => BiggestRight("up", "Biggest Jump") /\ BiggestRight("down", "Biggest Fall")

\* C9, its case: computeAwardsForWeek has run on two climbs of 2, the one
\* at the better rank listed second, and on a fall; the jump goes to the
\* entry listed second
BiggestJumpFallWitness ==
  /\ script = "awards" /\ pc = "rendered" /\ awards.by = "chart.js"
  /\ Len(classified) = 3
  /\ classified[1].movement = [type |-> "up", value |-> Num(2)]
  /\ classified[2].movement = [type |-> "up", value |-> Num(2)]
  /\ classified[3].movement.type = "down"
  /\ classified[1].rank = Num(2) /\ classified[2].rank = Num(1)
  /\ classified[1].key # classified[2].key
  /\ AwardsAt(classified[2].key, "Biggest Jump") # {}
  /\ AwardsAt(classified[1].key, "Biggest Jump") = {}

\* the hot-shot award of type ty and category text is rightly given
HotShotRight(ty, text) ==
  IF OfType(ty) = {} THEN NotGiven(text) ELSE GoesTo(text, LowestRanked(OfType(ty)))

\* C10 (Hot Shot awards): for entries with distinct ranks, Hot Shot Debut
\* goes to the new entry of lowest rank and Hot Shot Re-Entry to the re
\* entry of lowest rank; a song none of whose entries is new (re) is never
\* listed with Hot Shot Debut (Re-Entry).
HotShotAwards ==
  (script = "awards" /\ pc = "rendered")
  => /\ HotShotRight("new", "Hot Shot Debut")
     /\ HotShotRight("re", "Hot Shot Re-Entry")
     /\ \A i \in 1..Len(classified) :
          LET k == EntryKey(classified[i])
          IN /\ (\A j \in OfType("new") : EntryKey(classified[j]) # k)
                  => AwardsAt(k, "Hot Shot Debut") = {}
             /\ (\A j \in OfType("re") : EntryKey(classified[j]) # k)
                  => AwardsAt(k, "Hot Shot Re-Entry") = {}

\* C10, its case: computeAwardsMap has run on two debuts, the one at the
\* better rank listed second, and on a climb; the debut award goes to the
\* entry listed second and the climbing song has no hot-shot award
HotShotAwardsWitness ==
  /\ script = "awards" /\ pc = "rendered" /\ awards.by = "part_001"
  /\ Len(classified) = 3
  /\ classified[1].movement.type = "new" /\ classified[2].movement.type = "new"
  /\ classified[3].movement.type = "up"
  /\ classified[1].rank = Num(3) /\ classified[2].rank = Num(1)
  /\ classified[1].key # classified[2].key
  /\ AwardsAt(EntryKey(classified[2]), "Hot Shot Debut") # {}
  /\ AwardsAt(EntryKey(classified[1]), "Hot Shot Debut") = {}
  /\ AwardsAt(EntryKey(classified[3]), "Hot Shot Debut") = {}

\* the weeks on chart of listed entry i as of the chart's week: for
\* computeAwardsForWeek the entry's weeks; for computeAwardsMap the number of
\* distinct weeks up to the chart's week in the history of the entry's
\* catalog song, the entry's own weeks when the catalog does not hold it
WeeksAsOf(i) ==
  LET e == classified[i]
      k == songKey001(e.title, e.artist)
  IN IF awards.by = "part_001" /\ Has(AwardCatalog, k)
     THEN Cardinality({w \in WeeksOf(AwardCatalog[k].history) : w <= awards.asOfWeek})
     ELSE e.weeks.n

\* C11 (Longest Chart Sitter): for entries with distinct ranks, the Longest
\* Chart Sitter award goes to the entry whose weeks on chart as of the
\* chart's week are maximal, a tie going to the lowest rank; for
\* computeAwardsForWeek of chart.js and computeAwardsMap of part_001.
LongestSitter ==
  (script = "awards" /\ pc = "rendered" /\ classified # <<>>)
  => LET top == SetMax({WeeksAsOf(i) : i \in 1..Len(classified)})
     IN GoesTo("Longest Chart Sitter",
               LowestRanked({i \in 1..Len(classified) : WeeksAsOf(i) = top}))

\* C11, its case: computeAwardsMap has run for week 2 on song b (2 weeks of
\* its own, not a debut) at rank 2 and, listed after it, song c (2 weeks as of week 2 in
\* the catalog) at rank 1; the award goes to c
LongestSitterWitness ==
  /\ script = "awards" /\ pc = "rendered" /\ awards.by = "part_001" /\ awards.asOfWeek = 2
  /\ Len(classified) = 2
  /\ classified[1].artist = <<"b">> /\ classified[1].rank = Num(2)
  /\ classified[2].artist = <<"c">> /\ classified[2].rank = Num(1)
  /\ WeeksAsOf(1) = 2 /\ WeeksAsOf(2) = 2
  /\ AwardsAt(EntryKey(classified[2]), "Longest Chart Sitter") # {}
  /\ AwardsAt(EntryKey(classified[1]), "Longest Chart Sitter") = {}

Categories ==
  {"Biggest Jump", "Biggest Fall", "Hot Shot Debut", "Hot Shot Re-Entry", "Longest Chart Sitter"}

\* the listed entries eligible for category text
EligibleFor(text) ==
  IF text = "Biggest Jump" THEN OfType("up")
  ELSE IF text = "Biggest Fall" THEN OfType("down")
  ELSE IF text = "Hot Shot Debut" THEN OfType("new")
  ELSE IF text = "Hot Shot Re-Entry" THEN OfType("re")
  ELSE 1..Len(classified)

\* the entry to expect as winner of category text (which has eligible entries)
WinnerOf(text) ==
  IF text = "Biggest Jump" THEN BiggestOf("up")
  ELSE IF text = "Biggest Fall" THEN BiggestOf("down")
  ELSE IF text = "Hot Shot Debut" THEN LowestRanked(OfType("new"))
  ELSE IF text = "Hot Shot Re-Entry" THEN LowestRanked(OfType("re"))
  ELSE LowestRanked({i \in 1..Len(classified) :
                       WeeksAsOf(i) = SetMax({WeeksAsOf(j) : j \in 1..Len(classified)})})

\* how many awards of category text the map holds, over all keys
AwardCount(text) ==
  Cardinality({kj \in UNION {{<<k, j>> : j \in AwardsAt(k, text)} : k \in DOMAIN awards.map} : TRUE})

\* C12 (winner count per category): in the map the awards function returns
\* each of the five categories occurs at most once over all song keys,
\* exactly once when the week has an eligible entry for it and not at all
\* when it has none (no entries: an empty map), and the list of a song
\* holds every category that song wins, each once.
WinnerCount ==
  (script = "awards" /\ pc = "rendered")
  => /\ \A text \in Categories :
          AwardCount(text) = IF EligibleFor(text) = {} THEN 0 ELSE 1
     /\ classified = <<>> => awards.map = EmptyMap
     /\ \A k \in DOMAIN awards.map :
          /\ {awards.map[k][j].text : j \in 1..Len(awards.map[k])}
               = {text \in Categories :
                    EligibleFor(text) # {} /\ EntryKey(classified[WinnerOf(text)]) = k}
          /\ \A text \in Categories : Cardinality(AwardsAt(k, text)) <= 1
          /\ awards.map[k] # <<>>

\* C12, its case: computeAwardsForWeek has run on a climbing song at rank 1
\* with the most weeks and on a debut; the climbing song holds the jump and
\* the sitter award, the debut its own, and no fall or re-entry is awarded
WinnerCountWitness ==
  /\ script = "awards" /\ pc = "rendered" /\ awards.by = "chart.js"
  /\ Len(classified) = 2
  /\ classified[1].movement.type = "up" /\ classified[1].rank = Num(1)
  /\ classified[1].artist = <<"b">>
  /\ classified[2].movement.type = "new" /\ classified[2].artist = <<"c">>
  /\ Len(awards.map[classified[1].key]) = 2
  /\ AwardsAt(classified[1].key, "Biggest Jump") # {}
  /\ AwardsAt(classified[1].key, "Longest Chart Sitter") # {}
  /\ AwardsAt(classified[2].key, "Hot Shot Debut") # {}
  /\ NotGiven("Biggest Fall") /\ NotGiven("Hot Shot Re-Entry")

\* the ways to list n entries in another order
Orderings(n) == {p \in [1..n -> 1..n] : \A i \in 1..n : \E j \in 1..n : p[j] = i}

\* the awards function that ran, called on list
AwardsOf(list) ==
  IF awards.by = "chart.js" THEN computeAwardsForWeek(list)
  ELSE computeAwardsMap(list, AwardCatalog, awards.asOfWeek)

\* C13 (awards determinism): for a set of classified entries with distinct
\* ranks, computeAwardsForWeek and computeAwardsMap return the same winners
\* in whatever order the entries are listed, and on a repeated call.
AwardsDeterminism ==
  (script = "awards" /\ pc = "rendered")
  => \A p \in Orderings(Len(classified)) :
       AwardsOf([i \in 1..Len(classified) |-> classified[p[i]]]) = awards.map

\* C13, its case: computeAwardsMap has run on two climbs of 1, the one at
\* the better rank listed last, and on a third entry; listed the other way
\* round the winner of the jump is the same
AwardsDeterminismWitness ==
  /\ script = "awards" /\ pc = "rendered" /\ awards.by = "part_001"
  /\ Len(classified) = 3
  /\ classified[1].movement = [type |-> "up", value |-> Num(1)]
  /\ classified[3].movement = [type |-> "up", value |-> Num(1)]
  /\ classified[1].rank = Num(3) /\ classified[3].rank = Num(1)
  /\ classified[1].key # classified[3].key
  /\ AwardsAt(EntryKey(classified[3]), "Biggest Jump") # {}
  /\ AwardsOf(<<classified[3], classified[2], classified[1]>>) = awards.map

\* C14: whatever white space, asterisks and metadata parentheticals follow the
\* base name, in any order, cleanArtistName returns exactly the base name.
ArtistCleaning ==
  (script = "clean" /\ Has(cleaned, "cleanArtistName"))
    => cleaned["cleanArtistName"] = BaseArtist

\* C15: two spellings of one artist that differ in letter case, white space,
\* asterisks and metadata parentheticals give the same key with one title,
\* under the songKey of chart.js and under the songKey of part_001.
SongKeyJoin ==
  /\ (script = "clean" /\ Has(cleaned, "songKey"))
       => cleaned["songKey"][1] = cleaned["songKey"][2]
  /\ (script = "clean" /\ Has(cleaned, "songKey001"))
       => cleaned["songKey001"][1] = cleaned["songKey001"][2]

\* the songs of the catalog stored under exact key k, and those whose key has
\* the canonical form ck
StoredUnder(k) == {i \in 1..Len(catalog) : ExactKey(catalog[i].skey) = k}
CollapsingTo(ck) ==
  {i \in 1..Len(catalog) :
     LET exact == ExactKey(catalog[i].skey)
     IN HasParts(exact) /\ canonKey(exact.t, exact.a) = ck}

\* C16: findCatalogSong returns the song stored (last) under the entry's exact
\* key when there is one; otherwise the one song whose key has the entry's
\* canonical form when exactly one has; and null when two or more keys
\* collapse to that form, however many and in whatever order, or none does.
CanonicalFallback ==
  (script = "lookup" /\ pc = "rendered") =>
    LET exactHits == StoredUnder(songKey001(lookupEntry.title, lookupEntry.artist))
        canonHits == CollapsingTo(canonKey(lookupEntry.title, lookupEntry.artist))
    IN IF exactHits # {} THEN lookupHit = SetMax(exactHits)
       ELSE IF Cardinality(canonHits) = 1 THEN lookupHit \in canonHits
       ELSE lookupHit = NullSong

\* three catalog keys collapse to the canonical key of an entry no key matches exactly
CanonicalFallbackWitness ==
  /\ script = "lookup" /\ pc = "rendered"
  /\ StoredUnder(songKey001(lookupEntry.title, lookupEntry.artist)) = {}
  /\ Cardinality(CollapsingTo(canonKey(lookupEntry.title, lookupEntry.artist))) = 3
  /\ lookupHit = NullSong

\* C20: the derived entries main renders and passes to the awards are the
\* well-formed raw entries of the target week, in file order: an entry whose
\* rank is not numeric, or whose cleaned title or artist is empty, is left out.
MalformedExcluded ==
  (script = "scan" /\ pc = "rendered")
  => LET kept == SelectSeq(weekFiles[targetWeek], WellFormed)
     IN /\ Len(derivedEntries) = Len(kept)
        /\ \A i \in 1..Len(kept) :
             /\ derivedEntries[i].rank = kept[i].rank
             /\ derivedEntries[i].key = KeyOfRaw(kept[i])

\* C19: the row part_001 renders for an entry whose song the catalog does not
\* hold shows the entry's own peak and weeks, its rank as peak and 1 as weeks
\* when it carries none, and its own lastWeek (the dash of a NEW or RE entry
\* apart).
PerEntryFallback ==
  (script = "catalog" /\ pc = "rendered" /\ row.by = "part_001" /\ ~catalogSong.found)
  => /\ row.peak = (IF entry.peak.t = "null" THEN entry.rank ELSE entry.peak)
     /\ row.weeks = (IF entry.weeks.t = "null" THEN Num(1) ELSE entry.weeks)
     /\ entry.movement \notin {"new", "re"} => row.lw = entry.lastWeek

\* C18: when part_001's main has run with a manifest and a week file that
\* load and a catalog that does not, the page is rendered, not failed, and the
\* row shows the entry's own peak, weeks and lastWeek.
MissingCatalogDegrades ==
  (script = "catalog" /\ pc # "loading" /\ failedLoads.catalog)
  => /\ pc = "rendered"
     /\ row.by = "part_001"
     /\ row.peak = entry.peak /\ row.weeks = entry.weeks
     /\ entry.movement \notin {"new", "re"} => row.lw = entry.lastWeek

\* C17: when the file of the target week cannot be loaded, main of chart.js
\* ends as a load failure and renders no entry for that week, whatever the
\* other loads do.
MissingTargetFatal ==
  (script = "scan" /\ pc # "loading" /\ targetWeek \in failedLoads.weekFiles)
  => pc = "failed" /\ derivedEntries = <<>>

\* C21: when the catalog song of an entry has no appearance at or before the
\* week shown, statsAsOf of part_001 reports peak and weeks as absent, and the
\* row shows no data or the entry's own values for both, never a count of 0.
NoDataIsNotZero ==
  (script = "catalog" /\ pc = "rendered" /\ row.by = "part_001" /\ catalogSong.found
   /\ UpTo(dedupHistory(catalogSong.history), row.asOfWeek.n) = <<>>)
  => /\ statsAsOf(catalogSong, row.asOfWeek.n) = [peak |-> JsNull, weeks |-> JsNull]
     /\ row.peak \in {JsNull, entry.peak}
     /\ row.weeks \in {JsNull, entry.weeks}
     /\ row.weeks # Num(0)

\* what each needed week's fetch leaves in weekDataByWeek, whenever it settles
SettledData ==
  [w \in 1..targetWeek |->
     IF w \notin failedLoads.weekFiles THEN weekFiles[w]
     ELSE IF w = targetWeek THEN LatestJson.entries
     ELSE <<>>]

\* C22: when main of chart.js has derived the entries, every week from the
\* oldest to the target week has settled and has its entry in weekDataByWeek,
\* and the derived entries are those of the settled data, whatever the order
\* in which the fetches completed and whichever of them failed.
LoadBeforeCompute ==
  (script = "scan" /\ pc = "rendered")
  => /\ DOMAIN fetches = 1..targetWeek
     /\ \A w \in 1..targetWeek : fetches[w] = "fulfilled"
     /\ DOMAIN CacheMap(weekCache) = 1..targetWeek
     /\ derivedEntries = DerivedEntriesOf(WeeksDesc, SettledData, targetWeek)

\* C22, its case: the newer week's fetch completed before the older week's,
\* whose file is missing, and the entry of the target week is derived as new
LoadBeforeComputeWitness ==
  /\ script = "scan" /\ pc = "rendered" /\ targetWeek = 2
  /\ Len(weekCache) = 2 /\ weekCache[1].week = 2 /\ weekCache[2].week = 1
  /\ failedLoads.weekFiles = {1} /\ weekFiles[1] # <<>>
  /\ Len(derivedEntries) = 1 /\ derivedEntries[1].movement.type = "new"
  /\ KeyOfRaw(weekFiles[1][1]) = KeyOfRaw(weekFiles[2][1])

\* the distinct (song, week) pairs of the artist in the catalog, and those of
\* artist name in the week files up to the target week
SongWeekPairs ==
  UNION {{<<i, artistSongs[i][j].week>> : j \in 1..Len(artistSongs[i])} : i \in 1..Len(artistSongs)}
EntryPairs(name) ==
  UNION {{<<KeyOfRaw(weekFiles[w][j]), w>> :
            j \in {x \in 1..Len(weekFiles[w]) :
                     /\ cleanArtistName(weekFiles[w][x].artist) = name
                     /\ cleanTitle(weekFiles[w][x].title) # <<>>}} : w \in 1..targetWeek}

\* C23: the "chart entry(s)" count the search box shows for an artist is the
\* number of distinct (song, week) pairs of the artist: in part_001 and
\* part_000 over the catalog histories, in chart.js over the loaded weeks.
ArtistCountsUnique ==
  /\ (script = "search" /\ pc = "rendered")
     => shown.entries = Cardinality(SongWeekPairs)
  /\ (script = "scan" /\ pc = "rendered" /\ shown.by = "chart.js")
     => shown.entries = Cardinality(EntryPairs(shown.name))

\* the entries of the week published just before the target week
PrevWeekEntries == IF targetWeek > 1 THEN weekFiles[targetWeek - 1] ELSE <<>>

\* C24: every entry main of chart.js derives with movement up, down or same
\* has a lastWeek, which is a rank its song has in the week published just
\* before, and a movement value of |lastWeek - rank|; and prevWeekSet holds
\* an entry's key exactly when prevWeekRanks does.
MovementLastWeekAgree ==
  (script = "scan" /\ pc = "rendered")
  => \A i \in 1..Len(derivedEntries) :
       LET d == derivedEntries[i]
       IN /\ d.movement.type \in {"up", "down", "same"}
             => /\ d.lastWeek.t = "num"
                /\ targetWeek > 1 /\ d.lastWeek.n \in RanksIn(targetWeek - 1, d.key)
                /\ d.movement.value = JsAbs(JsSub(d.lastWeek, d.rank))
          /\ (d.key \in PrevWeekSet(PrevWeekEntries))
               <=> Has(ScanOf(weekFiles, targetWeek).prevWeekRanks, d.key)

\* C25: cleaning an artist string that is already cleaned changes nothing,
\* so songKey of the raw title and artist is songKey of the cleaned ones.
CleanIdempotent ==
  (script = "clean" /\ Has(cleaned, "keyOfCleaned"))
  => /\ cleaned["keyOfCleaned"].again = cleaned["keyOfCleaned"].artist
     /\ cleaned["keyOfCleaned"].key = songKey(rawTitle, rawArtist)

\* every week file lists each song key at most once, with a numeric rank
OncePerWeekNumeric ==
  \A w \in 1..Len(weekFiles) :
    /\ \A j \in 1..Len(weekFiles[w]) : weekFiles[w][j].rank.t = "num"
    /\ \A j \in 1..Len(weekFiles[w]) : \A x \in 1..Len(weekFiles[w]) :
         j # x => KeyOfRaw(weekFiles[w][j]) # KeyOfRaw(weekFiles[w][x])

\* the catalog history of song k: its (week, rank) appearances in the week
\* files from week w on
RECURSIVE HistoryFrom(_, _)
HistoryFrom(k, w) ==
  IF w > Len(weekFiles) THEN <<>>
  ELSE (IF RanksIn(w, k) = {} THEN <<>> ELSE <<Appearance(w, SetMin(RanksIn(w, k)))>>)
         \o HistoryFrom(k, w + 1)

\* C26: when every week file lists each song key at most once with a numeric
\* rank, the weeks, peak and last-week rank buildDerived computes for a song of
\* the target week are statsAsOf and lastWeekRankImmediate of part_001 on the
\* history made of the song's appearances in the week files.
EnginesAgree ==
  (script = "scan" /\ pc = "rendered" /\ OncePerWeekNumeric)
  => \A i \in 1..Len(derivedEntries) :
       WellFormed(weekFiles[targetWeek][i])
       => LET k == derivedEntries[i].key
              song == Song(HistoryFrom(k, 1))
              asof == statsAsOf(song, targetWeek)
              scan == ScanOf(weekFiles, targetWeek)
          IN /\ Has(scan.seenStats, k)
             /\ Num(scan.seenStats[k].weeks) = asof.weeks
             /\ Num(scan.seenStats[k].peak) = asof.peak
             /\ derivedEntries[i].weeks = asof.weeks /\ derivedEntries[i].peak = asof.peak
             /\ (IF Has(scan.prevWeekRanks, k) THEN Num(scan.prevWeekRanks[k]) ELSE JsNull)
                  = lastWeekRankImmediate(song, getPrevWeek(WeeksDesc, targetWeek))

\* C26, its case: a song at rank 2 in week 1 and at rank 1 in week 2, a later
\* week being published; for target week 2 both engines give 2 weeks, peak 1
\* and last-week rank 2
EnginesAgreeWitness ==
  /\ script = "scan" /\ pc = "rendered" /\ OncePerWeekNumeric
  /\ targetWeek = 2 /\ Len(weekFiles) = 3 /\ Len(weekFiles[3]) = 1
  /\ Len(derivedEntries) = 1 /\ WellFormed(weekFiles[2][1])
  /\ KeyOfRaw(weekFiles[3][1]) = derivedEntries[1].key
  /\ derivedEntries[1].weeks = Num(2) /\ derivedEntries[1].peak = Num(1)
  /\ ScanOf(weekFiles, 2).prevWeekRanks[derivedEntries[1].key] = 2
  /\ statsAsOf(Song(HistoryFrom(derivedEntries[1].key, 1)), 2) = [peak |-> Num(1), weeks |-> Num(2)]

\* the entries of the target week filed under the key of its entry i
OccurrencesOf(i) ==
  {j \in 1..Len(weekFiles[targetWeek]) :
     WellFormed(weekFiles[targetWeek][j])
     /\ KeyOfRaw(weekFiles[targetWeek][j]) = derivedEntries[i].key}

\* C27: every well-formed entry chart.js derives for the target week has
\* weeks >= 1, peak <= its rank and debutDate <= peakDate <= targetWeek; an
\* entry classified new whose key occurs once in the target week has weeks = 1
\* and peak = its rank.
StatsBounds ==
  (script = "scan" /\ pc = "rendered")
  => \A i \in 1..Len(derivedEntries) :
       WellFormed(weekFiles[targetWeek][i])
       => LET d == derivedEntries[i]
          IN /\ d.weeks.t = "num" /\ d.weeks.n >= 1
             /\ d.peak.t = "num" /\ d.peak.n <= d.rank.n
             /\ d.debutDate.t = "num" /\ d.peakDate.t = "num"
             /\ d.debutDate.n <= d.peakDate.n /\ d.peakDate.n <= targetWeek
             /\ (d.movement.type = "new" /\ Cardinality(OccurrencesOf(i)) = 1)
                  => d.weeks = Num(1) /\ d.peak = d.rank

\* C27, its case: in target week 2 a song that debuted at rank 2 is at rank
\* 1, its peak and peak date now those of week 2, next to a debut at rank 2
StatsBoundsWitness ==
  /\ script = "scan" /\ pc = "rendered" /\ targetWeek = 2
  /\ Len(derivedEntries) = 2
  /\ WellFormed(weekFiles[2][1]) /\ WellFormed(weekFiles[2][2])
  /\ derivedEntries[1].rank = Num(1) /\ derivedEntries[1].weeks = Num(2)
  /\ derivedEntries[1].peak = Num(1)
  /\ derivedEntries[1].debutDate = Num(1) /\ derivedEntries[1].peakDate = Num(2)
  /\ derivedEntries[2].movement.type = "new" /\ derivedEntries[2].rank = Num(2)
  /\ derivedEntries[2].weeks = Num(1) /\ derivedEntries[2].peak = Num(2)

\* the entries listed under the key that holds the Longest Chart Sitter award
SitterWinners ==
  {i \in 1..Len(classified) :
     AwardsAt(songKey001(classified[i].title, classified[i].artist), "Longest Chart Sitter") # {}}

\* the number of weeks the Longest Chart Sitter award of entry i quotes
QuotedWeeks(i) ==
  LET k == songKey001(classified[i].title, classified[i].artist)
  IN awards.map[k][CHOOSE j \in AwardsAt(k, "Longest Chart Sitter") : TRUE].n

\* C28: in part_001 the entry given the Longest Chart Sitter award has the
\* largest Weeks value shown in the rows of the week, and the award quotes
\* the Weeks value of its row.
SitterMatchesRow ==
  (script = "awards" /\ pc = "rendered" /\ Len(weekRows) > 0)
  => \E i \in SitterWinners :
       /\ QuotedWeeks(i) = weekRows[i]
       /\ \A j \in 1..Len(weekRows) : ~JsLt(weekRows[i], weekRows[j])

\* the rows of the page that are open
OpenRows == {i \in 1..Len(dom.rows) : dom.rows[i].open}

\* at most one row is open, open rows are the rows with aria-expanded "true",
\* closed rows have an empty panel
AccordionState ==
  /\ Cardinality(OpenRows) <= 1
  /\ \A i \in 1..Len(dom.rows) :
       /\ dom.rows[i].open <=> dom.rows[i].ariaExpanded = "true"
       /\ ~dom.rows[i].open => dom.rows[i].expand = EmptyPanel

\* the step handled a toggleRow call on a row that was open
ToggledOpenRow ==
  /\ dom'.event.type = "click" \/ (dom'.event.type = "keydown" /\ dom'.event.defaultPrevented)
  /\ dom.rows[dom'.event.target].open

\* C29: on part_001's chart page and part_000's artist page, whatever rows are
\* toggled by clicks or Enter/Space, at most one row is open, a row is open
\* exactly when its aria-expanded is "true", closed rows have an empty panel,
\* toggling the open row closes it, and input in part_000's filter closes all
\* rows.
AccordionInvariant ==
  /\ [](script = "accordion" => AccordionState)
  /\ [][script = "accordion" =>
          /\ ToggledOpenRow => ~dom'.rows[dom'.event.target].open
          /\ dom'.event.type = "input" => \A i \in 1..Len(dom'.rows) : ~dom'.rows[i].open]_vars

\* Space on the second row of the artist page opened it while a row is
\* filtered out
AccordionWitness ==
  /\ script = "accordion" /\ dom.page = "part_000"
  /\ dom.event.type = "keydown" /\ dom.event.defaultPrevented /\ dom.event.target = 2
  /\ OpenRows = {2}
  /\ dom.rows[2].expand # EmptyPanel
  /\ \E i \in 1..Len(dom.rows) : dom.rows[i].display = "none"

====
